---- MODULE Spec2Model ----
(***************************************************************************)
(* Job queues (QueueService over Bull) and the staged video pipeline       *)
(* (VideoEditor) of the YouTube automation service.                        *)
(*                                                                         *)
(* QueueSpec     : the four Bull queues, their processors and retry policy *)
(* QueueLiveSpec : QueueSpec with the worker's scheduling fairness         *)
(* PipeSpec      : overlapping createVideoFromScript invocations on one    *)
(*                 temp directory                                          *)
(*                                                                         *)
(* The queue backend is the Bull library: a queue runs the processor       *)
(* registered with process(concurrency, handler) on each of its jobs, at   *)
(* most `concurrency` at a time; a job whose processor throws is moved to  *)
(* delayed (opts.backoff) while fewer than opts.attempts attempts have     *)
(* failed, and to failed otherwise; a job whose processor returns is       *)
(* completed with the returned value.                                      *)
(***************************************************************************)
EXTENDS Integers, Sequences, FiniteSets, TLC

\* ---------------------------------------------------------------- bounds
MaxJobs == 2
MaxBurstJobs == 4
MaxLiveJobs == 2
MaxControlJobs == 3
MaxControls == 1
MaxPrioJobs == 3
MaxPriority == 2
MaxPipes == 2
MaxScenes == 2
MaxRenderPipes == 1
MaxRenderScenes == 3
MaxCalls == 2
MaxTicks == 3
MaxRequests == 2
MaxPromptLen == 2
MaxServices == 2
MaxUsage == 2
MaxTitleLen == 2
MaxPadLen == 99
MaxNameRuns == 2
MaxWorkJobs == 2
MaxCronTicks == 2
MaxSwitches == 3
MaxMemoCalls == 2
MaxMemoLen == 2
MaxRetries == 5

\* ------------------------------------------------------- program constants
maxConcurrentJobs == 3
trendAnalysisConcurrency == 1
videoUploadConcurrency == 2
aiProcessingConcurrency == 3
videoGenerationAttempts == 3
trendAnalysisAttempts == 2
videoUploadAttempts == 3
aiProcessingAttempts == 2
nameLimit == 100

VARIABLES
  jobs,        \* job id -> job record kept by the queue backend
  nextId,      \* next job id the backend hands out
  cap,         \* number of jobs this run submits at most
  target,      \* the kinds of job (queue, job name) this run submits
  tokenSaved,  \* youtube_token.json exists (YouTubeService.isAuthenticated after initialize)
  pc,          \* pipeline invocation -> position in createVideoFromScript
  scenes,      \* pipeline invocation -> number of scenes parseScript produced
  title,       \* pipeline invocation -> title class of the script data
  videoSegments, \* pipeline invocation -> paths pushed so far ("null" for a failed scene)
  finalVideo,  \* pipeline invocation -> value createVideoFromScript returns
  wrote,       \* pipeline invocation -> temp paths the invocation has written
  fs,          \* path -> file record; by = 0 when the file does not exist
  sentences,   \* pipeline invocation -> the number of non-empty sentences of its script
  duration,    \* pipeline invocation -> the requested duration, in ms, while its scene loop runs
  sceneBudget, \* number of scenes the scripts of this run have at most, in all
  pipeBudget,  \* number of pipeline invocations this run makes at most
  renderCall,  \* pipeline invocation -> the durations, in ms, its scene loop called the renderer with so far
  run,         \* createAndPublishVideo invocation -> its locals and position
  videoCount,  \* YouTubeAutomation.videoCount
  maxVideosPerDay, \* config.automation.maxVideosPerDay of this deployment
  paused,      \* queue -> the queue is paused
  controlLog,  \* the pause and clear requests made so far, in order
  spared,      \* job id -> the control call ("pause", "clear") the job was active during
  waitList,    \* queue -> ids of its waiting jobs, the next one to be taken first
  prios,       \* the priority values this run submits jobs with
  store,       \* cache key -> entry of the Redis store
  now,         \* seconds since the service started
  call,        \* getOrSet invocation -> its locals and position
  req,         \* generateText invocation -> its locals and position
  costTracker, \* OpenAIService instance -> its costTracker
  filename,    \* the title (UTF-16 code units) the runs of this behaviour are given
  outputNames, \* the sanitized name and the output path of each run made with that title, in order
  outputDir,   \* the files of the output directory
  isRunning,   \* YouTubeAutomation.isRunning
  cronTasks,   \* the number of registered cron tasks of each schedule (create: two-hourly, reset: daily)
  cronTick,    \* two-hour ticks of the clock so far
  cronDue,     \* callbacks of the two-hourly tasks due at the current tick and not yet run
  cronLog,     \* the createAndPublishVideo calls the scheduler made: tick, isRunning at the call, run
  switches,    \* startAutomation and stopAutomation calls made so far
  lastCall,    \* the last QueueService call made by queue name: method, name, job id and outcome
  retry,       \* the smartRetry invocation: its arguments, locals and position
  memo         \* optimizeVideoMetadata or generateVideoScript invocation -> its arguments, locals and position

ctlVars == <<paused, controlLog, spared, lastCall>>
cacheVars == <<store, now, call, req, costTracker, memo, retry>>
queueVars == <<jobs, nextId, cap, target, tokenSaved, paused, controlLog, spared, waitList, prios,
               lastCall>>
renderVars == <<sentences, duration, renderCall>>
pipeLoad == <<sceneBudget, pipeBudget>>
nameVars == <<filename, outputNames, outputDir>>
pipeVars == <<pc, scenes, title, videoSegments, finalVideo, wrote, fs, sentences, duration, renderCall,
              sceneBudget, pipeBudget, filename, outputNames, outputDir>>
cronVars == <<isRunning, cronTasks, cronTick, cronDue, cronLog, switches>>
autoVars == <<run, videoCount, maxVideosPerDay, isRunning, cronTasks, cronTick, cronDue, cronLog, switches>>
vars == <<jobs, nextId, cap, target, tokenSaved, pc, scenes, title, videoSegments, finalVideo, wrote, fs,
          run, videoCount, maxVideosPerDay, paused, controlLog, spared, store, now, call, req, costTracker,
          waitList, prios, sentences, duration, renderCall,
          sceneBudget, pipeBudget, filename, outputNames, outputDir,
          isRunning, cronTasks, cronTick, cronDue, cronLog, switches, memo, lastCall, retry>>

\* ================================================================ queues
Queues == {"videoGeneration", "trendAnalysis", "videoUpload", "aiProcessing"}

JobIds == 1..(IF MaxJobs > MaxBurstJobs THEN MaxJobs ELSE MaxBurstJobs)

AITypes == {"generateScript", "optimizeMetadata", "analyzeTrends"}

SubmittedAITypes == AITypes \cup {"unknownType"}

TransientErrors == {"rateLimit", "serverError", "timeout"}

\* the (queue, job name) pairs the add*Job methods submit
JobKinds ==
  {<<"videoGeneration", "generateVideo">>, <<"trendAnalysis", "analyzeTrends">>,
   <<"videoUpload", "uploadVideo">>}
    \cup {<<"aiProcessing", t>> : t \in SubmittedAITypes}

concurrency_one(q) == 1

concurrency_unbounded(q) == MaxJobs + MaxBurstJobs

\* the first argument of queue.process(...)
concurrency(q) ==
  CASE q = "videoGeneration" -> maxConcurrentJobs
    [] q = "trendAnalysis" -> trendAnalysisConcurrency
    [] q = "videoUpload" -> videoUploadConcurrency
    [] q = "aiProcessing" -> aiProcessingConcurrency

attemptsOpt_two(q) == 2

attemptsOpt_four(q) == 4

\* opts.attempts passed to queue.add(...)
attemptsOpt(q) ==
  CASE q = "videoGeneration" -> videoGenerationAttempts
    [] q = "trendAnalysis" -> trendAnalysisAttempts
    [] q = "videoUpload" -> videoUploadAttempts
    [] q = "aiProcessing" -> aiProcessingAttempts

\* opts.backoff.delay passed to queue.add(...): every queue retries after a delay
backoffDelay(q) ==
  CASE q = "videoGeneration" -> 2000
    [] q = "trendAnalysis" -> 5000
    [] q = "videoUpload" -> 3000
    [] q = "aiProcessing" -> 1000

\* opts.backoff.type passed to queue.add(...)
backoffType(q) ==
  CASE q = "videoGeneration" -> "exponential"
    [] q = "trendAnalysis" -> "fixed"
    [] q = "videoUpload" -> "exponential"
    [] q = "aiProcessing" -> "fixed"

\* the delay the backend computes from opts.backoff once attemptsMade attempts
\* have failed: the built-in strategies fixed (delay) and exponential
\* ((2^attemptsMade - 1) * delay); the options name no ceiling
backoffCalculate(q, attemptsMade) ==
  IF backoffType(q) = "fixed"
  THEN backoffDelay(q)
  ELSE (2 ^ attemptsMade - 1) * backoffDelay(q)

\* priority = 0: the default of the priority parameter of every add*Job
defaultPriority == 0

NoJob ==
  [queue |-> "none", state |-> "none", type |-> "none", attempts |-> 0,
   attemptsMade |-> 0, delays |-> 0, delay |-> 0, priority |-> 0, failedReason |-> "unset",
   returnvalue |-> "unset", upstream |-> "none"]

\* the job record queue.add(name, data, opts) creates
NewJob(q, t, priority) ==
  [NoJob EXCEPT !.queue = q, !.state = "waiting", !.type = t, !.priority = priority]

\* list with job j put at position k (1 = the next one to be taken)
InsertAt(list, k, j) ==
  [i \in 1..(Len(list) + 1) |-> IF i < k THEN list[i] ELSE IF i = k THEN j ELSE list[i - 1]]

\* how the backend puts job j of the given priority on a wait list: a job of
\* priority 0 goes to the end of the line; a job of priority >= 1 is entered in
\* the queue's priority set and placed behind the prioritized jobs of the list
\* whose value is lower or equal, in front of everything else
addToWait(list, j, priority) ==
  IF priority = 0
  THEN Append(list, j)
  ELSE LET count ==
             1 + Cardinality({i \in 1..Len(list) :
                                /\ jobs[list[i]].priority > 0
                                /\ jobs[list[i]].priority <= priority})
       IN InsertAt(list, count, j)

ActiveCount(q) == Cardinality({j \in JobIds : jobs[j].queue = q /\ jobs[j].state = "active"})

NoCall == [method |-> "none", queueName |-> "none", jobId |-> 0, outcome |-> "none"]

QueueInit ==
  /\ lastCall = NoCall
  /\ jobs = [j \in JobIds |-> NoJob]
  /\ nextId = 1
  /\ tokenSaved \in BOOLEAN
  /\ paused = [q \in Queues |-> FALSE]
  /\ controlLog = <<>>
  /\ spared = [j \in JobIds |-> "no"]
  /\ waitList = [q \in Queues |-> <<>>]

PipeIdle ==
  /\ pc = [p \in 1..MaxPipes |-> "idle"]
  /\ scenes = [p \in 1..MaxPipes |-> 0]
  /\ title = [p \in 1..MaxPipes |-> "none"]
  /\ videoSegments = [p \in 1..MaxPipes |-> <<>>]
  /\ finalVideo = [p \in 1..MaxPipes |-> "unset"]
  /\ wrote = [p \in 1..MaxPipes |-> {}]
  /\ sentences = [p \in 1..MaxPipes |-> 0]
  /\ duration = [p \in 1..MaxPipes |-> 0]
  /\ renderCall = [p \in 1..MaxPipes |-> <<>>]

Submit(q, t) ==
  /\ nextId <= cap
  /\ <<q, t>> \in target
  /\ \E priority \in prios :
       /\ jobs' = [jobs EXCEPT ![nextId] = NewJob(q, t, priority)]
       /\ waitList' = [waitList EXCEPT ![q] = addToWait(@, nextId, priority)]
  /\ nextId' = nextId + 1
  /\ UNCHANGED <<cap, target, tokenSaved, prios>>
  /\ UNCHANGED <<pipeVars, autoVars, cacheVars, ctlVars>>

addVideoGenerationJob == Submit("videoGeneration", "generateVideo")

addTrendAnalysisJob == Submit("trendAnalysis", "analyzeTrends")

addVideoUploadJob == Submit("videoUpload", "uploadVideo")

addAIProcessingJob == \E t \in SubmittedAITypes : Submit("aiProcessing", t)

Dequeue_ignoringPause(j) ==
  /\ jobs[j].state = "waiting"
  /\ ActiveCount(jobs[j].queue) < concurrency(jobs[j].queue)
  /\ j = Head(waitList[jobs[j].queue])
  /\ jobs' = [jobs EXCEPT ![j].state = "active", ![j].attempts = @ + 1]
  /\ waitList' = [waitList EXCEPT ![jobs[j].queue] = Tail(@)]
  /\ UNCHANGED <<nextId, cap, target, tokenSaved, prios>>
  /\ UNCHANGED <<pipeVars, autoVars, cacheVars, ctlVars>>

\* a free slot of the queue's worker takes a waiting job, unless the queue is paused
Dequeue(j) ==
  /\ jobs[j].state = "waiting"
  /\ ~paused[jobs[j].queue]
  /\ ActiveCount(jobs[j].queue) < concurrency(jobs[j].queue)
  /\ j = Head(waitList[jobs[j].queue])
  /\ jobs' = [jobs EXCEPT ![j].state = "active", ![j].attempts = @ + 1]
  /\ waitList' = [waitList EXCEPT ![jobs[j].queue] = Tail(@)]
  /\ UNCHANGED <<nextId, cap, target, tokenSaved, prios>>
  /\ UNCHANGED <<pipeVars, autoVars, cacheVars, ctlVars>>

\* the backoff delay of a delayed job elapses
PromoteDelayed(j) ==
  /\ jobs[j].state = "delayed"
  /\ jobs' = [jobs EXCEPT ![j].state = "waiting"]
  /\ waitList' = [waitList EXCEPT ![jobs[j].queue] = addToWait(@, j, jobs[j].priority)]
  /\ UNCHANGED <<nextId, cap, target, tokenSaved, prios>>
  /\ UNCHANGED <<pipeVars, autoVars, cacheVars, ctlVars>>

\* the processor returned: the job is completed with the returned value
moveToCompleted(job, value, up) ==
  [job EXCEPT !.state = "completed", !.returnvalue = value, !.upstream = up]

moveToFailed_noRetry(job, err, up) ==
  [job EXCEPT !.attemptsMade = @ + 1, !.failedReason = err, !.upstream = up,
              !.state = "failed"]

moveToFailed_noDelay(job, err, up) ==
  [job EXCEPT !.attemptsMade = @ + 1, !.failedReason = err, !.upstream = up,
              !.state = IF job.attemptsMade + 1 < attemptsOpt(job.queue)
                        THEN "waiting" ELSE "failed"]

moveToFailed_noReason(job, err, up) ==
  [job EXCEPT !.attemptsMade = @ + 1, !.upstream = up,
              !.state = IF job.attemptsMade + 1 < attemptsOpt(job.queue)
                        THEN "delayed" ELSE "failed",
              !.delays = IF job.attemptsMade + 1 < attemptsOpt(job.queue)
                         THEN @ + 1 ELSE @,
              !.delay = IF job.attemptsMade + 1 < attemptsOpt(job.queue)
                        THEN backoffCalculate(job.queue, job.attemptsMade + 1) ELSE @]

\* the processor threw: retried after the backoff delay while opts.attempts allows
moveToFailed(job, err, up) ==
  [job EXCEPT !.attemptsMade = @ + 1, !.failedReason = err, !.upstream = up,
              !.state = IF job.attemptsMade + 1 < attemptsOpt(job.queue)
                           /\ backoffDelay(job.queue) > 0
                        THEN "delayed" ELSE "failed",
              !.delays = IF job.attemptsMade + 1 < attemptsOpt(job.queue)
                            /\ backoffDelay(job.queue) > 0
                         THEN @ + 1 ELSE @,
              !.delay = IF job.attemptsMade + 1 < attemptsOpt(job.queue)
                           /\ backoffDelay(job.queue) > 0
                        THEN backoffCalculate(job.queue, job.attemptsMade + 1) ELSE @]

Finish(j, rec) ==
  /\ jobs' = [jobs EXCEPT ![j] = rec]
  /\ waitList' = IF rec.state = "waiting"
                 THEN [waitList EXCEPT ![rec.queue] = addToWait(@, j, rec.priority)]
                 ELSE waitList
  /\ UNCHANGED <<nextId, cap, target, tokenSaved, prios>>
  /\ UNCHANGED <<pipeVars, autoVars, cacheVars, ctlVars>>

\* const { VideoEditor } = require('./videoEditor') of a module that exports the
\* class itself: the name is undefined
VideoEditorImport == "undefined"

\* videoGeneration processor: new VideoEditor() throws before the pipeline is called
videoGenerationProcessor(j) ==
  /\ jobs[j].state = "active"
  /\ jobs[j].queue = "videoGeneration"
  /\ VideoEditorImport = "undefined"
  /\ Finish(j, moveToFailed(jobs[j], "VideoEditor is not a constructor", "none"))

\* trendAnalysis processor: init()/close() may throw, getTopicTrends() never does
trendAnalysisProcessor(j) ==
  /\ jobs[j].state = "active"
  /\ jobs[j].queue = "trendAnalysis"
  /\ \/ Finish(j, moveToFailed(jobs[j], "browser launch failed", "none"))
     \/ \E v \in {"trends", "emptyFallback"} : Finish(j, moveToCompleted(jobs[j], v, "none"))

\* videoUpload processor: uploadVideo throws only when not authenticated
videoUploadProcessor(j) ==
  /\ jobs[j].state = "active"
  /\ jobs[j].queue = "videoUpload"
  /\ IF ~tokenSaved
     THEN Finish(j, moveToFailed(jobs[j], "not authenticated", "none"))
     ELSE \E v \in {"value", "null"} : Finish(j, moveToCompleted(jobs[j], v, "none"))

generateText_rethrow(up) == IF up = "ok" THEN "value" ELSE "threw"

\* OpenAIService.generateText: safeExecute turns an upstream failure into null
generateText(up) == IF up = "ok" THEN "value" ELSE "null"

\* aiProcessing processor: the switch on job.data.type
aiProcessingProcessor(j) ==
  /\ jobs[j].state = "active"
  /\ jobs[j].queue = "aiProcessing"
  /\ IF jobs[j].type \in AITypes
     THEN \E up \in {"ok"} \cup TransientErrors :
            IF generateText(up) = "threw"
            THEN Finish(j, moveToFailed(jobs[j], "upstream error", up))
            ELSE Finish(j, moveToCompleted(jobs[j], generateText(up), up))
     ELSE Finish(j, moveToFailed(jobs[j], "unknown AI task type", "none"))

\* the web flow stores the OAuth token
authenticate ==
  /\ ~tokenSaved
  /\ tokenSaved' = TRUE
  /\ UNCHANGED <<jobs, nextId, cap, target, waitList, prios>>
  /\ UNCHANGED <<pipeVars, autoVars, cacheVars, ctlVars>>

\* ---- queue control: the queue exists (this.queues[queueName]) for the four names
\* and the model looks at the queues that are given jobs
Controllable(q) ==
  /\ Len(controlLog) < MaxControls
  /\ \E k \in target : k[1] = q

\* the jobs of q that are running now
ActiveJobs(q) == {j \in JobIds : jobs[j].queue = q /\ jobs[j].state = "active"}

clearQueue_everything(q) ==
  /\ Controllable(q)
  /\ jobs' = [j \in JobIds |->
               IF jobs[j].queue = q /\ jobs[j].state \in {"waiting", "delayed", "active"}
               THEN [jobs[j] EXCEPT !.state = "removed"] ELSE jobs[j]]
  /\ spared' = [j \in JobIds |-> IF j \in ActiveJobs(q) THEN "clear" ELSE spared[j]]
  /\ controlLog' = Append(controlLog, <<"clear", q>>)
  /\ waitList' = [waitList EXCEPT ![q] = <<>>]
  /\ UNCHANGED <<nextId, cap, target, tokenSaved, paused, prios>>
  /\ UNCHANGED <<pipeVars, autoVars, cacheVars, lastCall>>

\* clearQueue: queue.empty() deletes the queue's input lists (waiting and
\* delayed) and the jobs on them
clearQueue(q) ==
  /\ Controllable(q)
  /\ jobs' = [j \in JobIds |->
               IF jobs[j].queue = q /\ jobs[j].state \in {"waiting", "delayed"}
               THEN [jobs[j] EXCEPT !.state = "removed"] ELSE jobs[j]]
  /\ spared' = [j \in JobIds |-> IF j \in ActiveJobs(q) THEN "clear" ELSE spared[j]]
  /\ controlLog' = Append(controlLog, <<"clear", q>>)
  /\ waitList' = [waitList EXCEPT ![q] = <<>>]
  /\ UNCHANGED <<nextId, cap, target, tokenSaved, paused, prios>>
  /\ UNCHANGED <<pipeVars, autoVars, cacheVars, lastCall>>

\* pauseQueue: queue.pause(); pausing a paused queue changes nothing
pauseQueue(q) ==
  /\ Controllable(q)
  /\ ~paused[q]
  /\ paused' = [paused EXCEPT ![q] = TRUE]
  /\ spared' = [j \in JobIds |-> IF j \in ActiveJobs(q) THEN "pause" ELSE spared[j]]
  /\ controlLog' = Append(controlLog, <<"pause", q>>)
  /\ UNCHANGED <<jobs, nextId, cap, target, tokenSaved, waitList, prios>>
  /\ UNCHANGED <<pipeVars, autoVars, cacheVars, lastCall>>

\* resumeQueue: queue.resume(); resuming a running queue changes nothing
resumeQueue(q) ==
  /\ paused[q]
  /\ paused' = [paused EXCEPT ![q] = FALSE]
  /\ UNCHANGED <<jobs, nextId, cap, target, tokenSaved, controlLog, spared, waitList, prios>>
  /\ UNCHANGED <<pipeVars, autoVars, cacheVars, lastCall>>

\* getJobStatus(queueName, jobId).state, i.e. job.getState(): the list the job
\* is on; pause() renames the wait list to paused, so a job waiting in a paused
\* queue reports 'paused'. A job that is gone (getJob finds nothing) has no record
getState(j) ==
  IF jobs[j].state = "waiting" /\ paused[jobs[j].queue] THEN "paused" ELSE jobs[j].state

\* getQueueStats(queueName): the lengths of the five lists; getWaiting() reads
\* the wait list and the paused list
getQueueStats(q) ==
  [s \in {"waiting", "active", "completed", "failed", "delayed"} |->
     Cardinality({j \in JobIds : jobs[j].queue = q /\ jobs[j].state = s})]

\* ============================================================== pipeline
Pipes == 1..MaxPipes

Titles == 1..2

NullPath == 0 - 1

\* path.join(this.tempDir, 'video', `scene_${index}.mp4`): the same for every invocation
scenePath(p, index) == <<"scene", index>>

\* path.join(this.tempDir, 'concat_list.txt')
listFile(p) == <<"concat_list", 0>>

\* path.join(this.outputDir, `${this.sanitizeFilename(title)}.mp4`)
outputPath(t) == <<"out", t>>

\* the most scenes any run of the model renders
MostScenes == IF MaxRenderScenes > MaxScenes THEN MaxRenderScenes ELSE MaxScenes

SceneIndexes == 0..(MostScenes - 1)

\* videoPath.replace('.mp4', `_${platform}.mp4`) with platform 'shorts'
platformPath(path) == <<path[1] \o "_shorts", path[2]>>

\* videoPath.replace('.mp4', '_thumbnail.jpg')
thumbnailPathOf(path) == <<path[1] \o "_thumbnail", path[2]>>

Paths ==
  {<<"scene", i>> : i \in SceneIndexes} \cup {<<"concat_list", 0>>}
    \cup {<<"out", t>> : t \in Titles}
    \cup {platformPath(<<"out", t>>) : t \in Titles}
    \cup {thumbnailPathOf(<<"out", t>>) : t \in Titles}
    \cup {thumbnailPathOf(platformPath(<<"out", t>>)) : t \in Titles}

TempPaths == {<<"scene", i>> : i \in SceneIndexes} \cup {<<"concat_list", 0>>}

Absent == [by |-> 0, parts |-> <<>>]

Exists(path) == fs[path].by # 0

\* no title under test, no run made with it
NameIdle ==
  /\ filename = <<>>
  /\ outputNames = <<>>
  /\ outputDir = {}

PipeInit ==
  /\ PipeIdle
  /\ NameIdle
  /\ fs = [path \in Paths |-> Absent]
  /\ sceneBudget = MaxScenes
  /\ pipeBudget = MaxPipes

\* one invocation after the other, with scripts of up to MaxRenderScenes scenes
RenderInit ==
  /\ PipeIdle
  /\ NameIdle
  /\ fs = [path \in Paths |-> Absent]
  /\ sceneBudget = MaxRenderScenes
  /\ pipeBudget = MaxRenderPipes

RECURSIVE SumScenes(_)
SumScenes(p) == IF p = 0 THEN 0 ELSE scenes[p] + SumScenes(p - 1)

\* the scenes of all the scripts handed to the pipeline so far
ScenesSoFar == SumScenes(MaxPipes)

\* what script.split('. ') yields: pieces with text and pieces that are empty
\* or blank
Scripts == UNION {[1..k -> {"text", "blank"}] : k \in 1..MostScenes}

\* the duration option, in ms: 60 s (the default and the automation's value)
\* and a short one
Durations == {60000, 8000}

\* scene.duration = 3 + Math.random() * 2 seconds, in ms: the ends of [3, 5)
SceneDurations == {3000, 4999}

\* parseScript(script): the non-blank pieces, numbered from 0 after the filter
parseScript(s) ==
  [i \in 1..Len(SelectSeq(s, LAMBDA piece : piece = "text")) |-> i - 1]

\* createVideoFromScript up to the scene loop: parseScript splits the script
\* into scenes, or throws on a payload without a script (safeExecute: null)
startPipeline(p, s, d, t, valid) ==
  /\ pc[p] = "idle"
  /\ \A q \in Pipes : q < p => pc[q] # "idle"
  /\ p <= pipeBudget
  /\ Len(parseScript(s)) + ScenesSoFar <= sceneBudget
  /\ IF valid
     THEN /\ pc' = [pc EXCEPT ![p] = "render"]
          /\ scenes' = [scenes EXCEPT ![p] = Len(parseScript(s))]
          /\ title' = [title EXCEPT ![p] = t]
          /\ sentences' = [sentences EXCEPT ![p] = Cardinality({k \in 1..Len(s) : s[k] = "text"})]
          /\ duration' = [duration EXCEPT ![p] = d]
          /\ UNCHANGED finalVideo
     ELSE /\ pc' = [pc EXCEPT ![p] = "done"]
          /\ finalVideo' = [finalVideo EXCEPT ![p] = "null"]
          /\ UNCHANGED <<scenes, title, sentences, duration>>
  /\ UNCHANGED <<videoSegments, wrote, fs, renderCall>>
  /\ UNCHANGED <<queueVars, cacheVars, pipeLoad, nameVars>>

Min(a, b) == IF a < b THEN a ELSE b

createSceneVideo_wholeBudget(p, ok, sceneDuration) ==
  /\ pc[p] = "render"
  /\ Len(videoSegments[p]) < scenes[p]
  /\ LET index == Len(videoSegments[p]) IN
       /\ renderCall' = [renderCall EXCEPT ![p] = Append(@, Min(sceneDuration, duration[p]))]
       /\ IF ok
          THEN /\ fs' = [fs EXCEPT ![scenePath(p, index)] = [by |-> p, parts |-> <<>>]]
               /\ videoSegments' = [videoSegments EXCEPT ![p] = Append(@, index)]
               /\ wrote' = [wrote EXCEPT ![p] = @ \cup {scenePath(p, index)}]
          ELSE /\ videoSegments' = [videoSegments EXCEPT ![p] = Append(@, NullPath)]
               /\ UNCHANGED <<fs, wrote>>
  /\ UNCHANGED <<pc, scenes, title, finalVideo, sentences, duration>>
  /\ UNCHANGED <<queueVars, cacheVars, pipeLoad, nameVars>>

createSceneVideo_uncapped(p, ok, sceneDuration) ==
  /\ pc[p] = "render"
  /\ Len(videoSegments[p]) < scenes[p]
  /\ LET index == Len(videoSegments[p]) IN
       /\ renderCall' = [renderCall EXCEPT ![p] = Append(@, sceneDuration)]
       /\ IF ok
          THEN /\ fs' = [fs EXCEPT ![scenePath(p, index)] = [by |-> p, parts |-> <<>>]]
               /\ videoSegments' = [videoSegments EXCEPT ![p] = Append(@, index)]
               /\ wrote' = [wrote EXCEPT ![p] = @ \cup {scenePath(p, index)}]
          ELSE /\ videoSegments' = [videoSegments EXCEPT ![p] = Append(@, NullPath)]
               /\ UNCHANGED <<fs, wrote>>
  /\ UNCHANGED <<pc, scenes, title, finalVideo, sentences, duration>>
  /\ UNCHANGED <<queueVars, cacheVars, pipeLoad, nameVars>>

\* one iteration of the scene loop: createSceneVideo calls the renderer for
\* Math.min(scene.duration, duration / scenes.length), in whole ms, the
\* quotient rounded down, and returns the scene
\* path, or null when the render fails (safeExecute), and the value is pushed
createSceneVideo(p, ok, sceneDuration) ==
  /\ pc[p] = "render"
  /\ Len(videoSegments[p]) < scenes[p]
  /\ LET index == Len(videoSegments[p]) IN
       /\ renderCall' = [renderCall EXCEPT ![p] = Append(@, Min(sceneDuration, duration[p] \div scenes[p]))]
       /\ IF ok
          THEN /\ fs' = [fs EXCEPT ![scenePath(p, index)] = [by |-> p, parts |-> <<>>]]
               /\ videoSegments' = [videoSegments EXCEPT ![p] = Append(@, index)]
               /\ wrote' = [wrote EXCEPT ![p] = @ \cup {scenePath(p, index)}]
          ELSE /\ videoSegments' = [videoSegments EXCEPT ![p] = Append(@, NullPath)]
               /\ UNCHANGED <<fs, wrote>>
  /\ UNCHANGED <<pc, scenes, title, finalVideo, sentences, duration>>
  /\ UNCHANGED <<queueVars, cacheVars, pipeLoad, nameVars>>

RECURSIVE filterPaths(_)
\* videoPaths.filter(p => p)
filterPaths(s) ==
  IF s = <<>> THEN <<>>
  ELSE IF Head(s) = NullPath THEN filterPaths(Tail(s))
       ELSE <<Head(s)>> \o filterPaths(Tail(s))

writeConcatList_reversed(p) ==
  /\ pc[p] = "render"
  /\ Len(videoSegments[p]) = scenes[p]
  /\ LET kept == filterPaths(videoSegments[p]) IN
       fs' = [fs EXCEPT ![listFile(p)] =
                [by |-> p,
                 parts |-> [k \in 1..Len(kept) |->
                              <<scenePath(p, kept[Len(kept) + 1 - k])[2], 0>>]]]
  /\ wrote' = [wrote EXCEPT ![p] = @ \cup {listFile(p)}]
  /\ pc' = [pc EXCEPT ![p] = "concat"]
  /\ duration' = [duration EXCEPT ![p] = 0]
  /\ renderCall' = [renderCall EXCEPT ![p] = <<>>]
  /\ UNCHANGED <<scenes, title, videoSegments, finalVideo, sentences>>
  /\ UNCHANGED <<queueVars, cacheVars, pipeLoad, nameVars>>

\* concatenateVideos, first half: the list of the non-null paths is written
writeConcatList(p) ==
  /\ pc[p] = "render"
  /\ Len(videoSegments[p]) = scenes[p]
  /\ LET kept == filterPaths(videoSegments[p]) IN
       fs' = [fs EXCEPT ![listFile(p)] =
                [by |-> p, parts |-> [k \in 1..Len(kept) |-> <<scenePath(p, kept[k])[2], 0>>]]]
  /\ wrote' = [wrote EXCEPT ![p] = @ \cup {listFile(p)}]
  /\ pc' = [pc EXCEPT ![p] = "concat"]
  /\ duration' = [duration EXCEPT ![p] = 0]
  /\ renderCall' = [renderCall EXCEPT ![p] = <<>>]
  /\ UNCHANGED <<scenes, title, videoSegments, finalVideo, sentences>>
  /\ UNCHANGED <<queueVars, cacheVars, pipeLoad, nameVars>>

\* what ffmpeg's concat demuxer can do with the list file as it is now
Concatenable(p) ==
  /\ Exists(listFile(p))
  /\ fs[listFile(p)].parts # <<>>
  /\ \A k \in 1..Len(fs[listFile(p)].parts) : Exists(<<"scene", fs[listFile(p)].parts[k][1]>>)

\* concatenateVideos, second half: ffmpeg reads the list and writes the output,
\* or fails (safeExecute: null)
runConcat(p, ok) ==
  /\ pc[p] = "concat"
  /\ IF ok /\ Concatenable(p)
     THEN LET list == fs[listFile(p)].parts IN
          /\ fs' = [fs EXCEPT ![outputPath(title[p])] =
                      [by |-> p,
                       parts |-> [k \in 1..Len(list) |->
                                    <<list[k][1], fs[<<"scene", list[k][1]>>].by>>]]]
          /\ finalVideo' = [finalVideo EXCEPT ![p] = "out"]
     ELSE /\ finalVideo' = [finalVideo EXCEPT ![p] = "null"]
          /\ UNCHANGED fs
  /\ pc' = [pc EXCEPT ![p] = "cleanup"]
  /\ UNCHANGED <<scenes, title, videoSegments, wrote, renderVars>>
  /\ UNCHANGED <<queueVars, cacheVars, pipeLoad, nameVars>>

\* cleanup(videoSegments): every non-null path is unlinked, then the function returns
cleanup(p) ==
  /\ pc[p] = "cleanup"
  /\ fs' = [path \in Paths |->
             IF \E k \in 1..Len(videoSegments[p]) :
                  /\ videoSegments[p][k] # NullPath
                  /\ path = scenePath(p, videoSegments[p][k])
             THEN Absent ELSE fs[path]]
  /\ pc' = [pc EXCEPT ![p] = "done"]
  /\ UNCHANGED <<scenes, title, videoSegments, finalVideo, wrote, renderVars>>
  /\ UNCHANGED <<queueVars, cacheVars, pipeLoad, nameVars>>

\* createVideoFromScript called directly, outside createAndPublishVideo
createVideoFromScript ==
  /\ \/ \E p \in Pipes, s \in Scripts, d \in Durations, t \in Titles, valid \in BOOLEAN :
          startPipeline(p, s, d, t, valid)
     \/ \E p \in Pipes, ok \in BOOLEAN, sceneDuration \in SceneDurations :
          createSceneVideo(p, ok, sceneDuration)
     \/ \E p \in Pipes : writeConcatList(p)
     \/ \E p \in Pipes, ok \in BOOLEAN : runConcat(p, ok)
     \/ \E p \in Pipes : cleanup(p)
  /\ UNCHANGED autoVars

PipeNext == createVideoFromScript

\* ============================================================ automation
Runs == 1..MaxPipes

defaultMaxVideosPerDay == 5

NoPath == <<"null", 0>>

UnsetPath == <<"unset", 0>>

IdleRun ==
  [stage |-> "idle", pipe |-> 0, videoPath |-> UnsetPath, optimizedVideoPath |-> UnsetPath,
   thumbnailPath |-> UnsetPath, uploaded |-> UnsetPath, result |-> "unset"]

\* the automation as constructed: not running, nothing scheduled
CronIdle ==
  /\ isRunning = FALSE
  /\ cronTasks = [create |-> 0, reset |-> 0]
  /\ cronTick = 0
  /\ cronDue = 0
  /\ cronLog = <<>>
  /\ switches = 0

AutoIdle ==
  /\ CronIdle
  /\ run = [r \in Runs |-> IdleRun]
  /\ videoCount = 0
  /\ maxVideosPerDay = defaultMaxVideosPerDay

\* parseInt(process.env.MAX_VIDEOS_PER_DAY) || 5
AutoInit ==
  /\ CronIdle
  /\ run = [r \in Runs |-> IdleRun]
  /\ videoCount = 0
  /\ maxVideosPerDay \in {1, defaultMaxVideosPerDay}

\* safeExecute(..., 'createAndPublishVideo'): a throw ends the run with null
Abort(r) == run' = [run EXCEPT ![r].stage = "done", ![r].result = "null"]

\* createAndPublishVideo up to generateContentIdeas: the daily-limit check
beginCreateAndPublish(r) ==
  /\ run[r].stage = "idle"
  /\ \A q \in Runs : q < r => run[q].stage # "idle"
  /\ IF videoCount >= maxVideosPerDay
     THEN Abort(r)
     ELSE run' = [run EXCEPT ![r].stage = "ideas"]
  /\ UNCHANGED <<videoCount, maxVideosPerDay, cronVars>>
  /\ UNCHANGED <<queueVars, pipeVars, cacheVars>>

\* generateContentIdeas(1) returned: without ideas the run throws
generateContentIdeas(r, ok) ==
  /\ run[r].stage = "ideas"
  /\ IF ok
     THEN run' = [run EXCEPT ![r].stage = "create"]
     ELSE Abort(r)
  /\ UNCHANGED <<videoCount, maxVideosPerDay, cronVars>>
  /\ UNCHANGED <<queueVars, pipeVars, cacheVars>>

\* the call of this.videoEditor.createVideoFromScript(scriptData, ...)
callCreateVideo(r) ==
  /\ run[r].stage = "create"
  /\ run[r].pipe = 0
  /\ \E p \in Pipes, s \in Scripts, t \in Titles, valid \in BOOLEAN :
       /\ startPipeline(p, s, 60000, t, valid)
       /\ run' = [run EXCEPT ![r].pipe = p]
  /\ UNCHANGED <<videoCount, maxVideosPerDay, cronVars>>

\* createVideoFromScript running on behalf of the run
stepCreateVideo(r) ==
  /\ run[r].stage = "create"
  /\ run[r].pipe # 0
  /\ \/ \E ok \in BOOLEAN, sceneDuration \in SceneDurations :
          createSceneVideo(run[r].pipe, ok, sceneDuration)
     \/ writeConcatList(run[r].pipe)
     \/ \E ok \in BOOLEAN : runConcat(run[r].pipe, ok)
     \/ cleanup(run[r].pipe)
  /\ UNCHANGED autoVars

\* const videoPath = await ...; if (!videoPath) throw
returnCreateVideo(r) ==
  /\ run[r].stage = "create"
  /\ run[r].pipe # 0
  /\ pc[run[r].pipe] = "done"
  /\ IF finalVideo[run[r].pipe] = "null"
     THEN Abort(r)
     ELSE run' = [run EXCEPT ![r].stage = "optimize",
                             ![r].videoPath = outputPath(title[run[r].pipe])]
  /\ UNCHANGED <<videoCount, maxVideosPerDay, cronVars>>
  /\ UNCHANGED <<queueVars, pipeVars, cacheVars>>

\* optimizeForPlatform(videoPath, 'shorts'): the re-encoded file next to the
\* input, or null when ffmpeg fails (safeExecute)
optimizeForPlatform(r, ok) ==
  /\ run[r].stage = "optimize"
  /\ IF ok /\ Exists(run[r].videoPath)
     THEN /\ fs' = [fs EXCEPT ![platformPath(run[r].videoPath)] =
                      [by |-> run[r].pipe, parts |-> fs[run[r].videoPath].parts]]
          /\ run' = [run EXCEPT ![r].stage = "thumbnail",
                                ![r].optimizedVideoPath = platformPath(run[r].videoPath)]
     ELSE /\ run' = [run EXCEPT ![r].stage = "thumbnail", ![r].optimizedVideoPath = NoPath]
          /\ UNCHANGED fs
  /\ UNCHANGED <<pc, scenes, title, videoSegments, finalVideo, wrote, renderVars>>
  /\ UNCHANGED <<videoCount, maxVideosPerDay, cronVars>>
  /\ UNCHANGED <<queueVars, cacheVars, pipeLoad, nameVars>>

\* optimizedVideoPath || videoPath
publishedPath(r) ==
  IF run[r].optimizedVideoPath # NoPath THEN run[r].optimizedVideoPath ELSE run[r].videoPath

\* createThumbnail(optimizedVideoPath || videoPath): the jpg next to the input,
\* or null when ffmpeg fails (safeExecute)
createThumbnail(r, ok) ==
  /\ run[r].stage = "thumbnail"
  /\ IF ok /\ Exists(publishedPath(r))
     THEN /\ fs' = [fs EXCEPT ![thumbnailPathOf(publishedPath(r))] =
                      [by |-> run[r].pipe, parts |-> <<>>]]
          /\ run' = [run EXCEPT ![r].stage = "metadata",
                                ![r].thumbnailPath = thumbnailPathOf(publishedPath(r))]
     ELSE /\ run' = [run EXCEPT ![r].stage = "metadata", ![r].thumbnailPath = NoPath]
          /\ UNCHANGED fs
  /\ UNCHANGED <<pc, scenes, title, videoSegments, finalVideo, wrote, renderVars>>
  /\ UNCHANGED <<videoCount, maxVideosPerDay, cronVars>>
  /\ UNCHANGED <<queueVars, cacheVars, pipeLoad, nameVars>>

\* optimizeVideoMetadata and the reading of its result: a null result (or a
\* script without description) throws a TypeError
optimizeVideoMetadata(r, ok) ==
  /\ run[r].stage = "metadata"
  /\ IF ok
     THEN run' = [run EXCEPT ![r].stage = "upload"]
     ELSE Abort(r)
  /\ UNCHANGED <<videoCount, maxVideosPerDay, cronVars>>
  /\ UNCHANGED <<queueVars, pipeVars, cacheVars>>

\* youtubeService.uploadVideo(optimizedVideoPath || videoPath, ...), then
\* this.videoCount++ and the reading of uploadResult.videoId
uploadVideo(r, ok) ==
  /\ run[r].stage = "upload"
  /\ IF ~tokenSaved
     THEN /\ Abort(r)
          /\ UNCHANGED videoCount
     ELSE /\ videoCount' = videoCount + 1
          /\ run' = [run EXCEPT ![r].stage = "done",
                                ![r].uploaded = IF ok THEN publishedPath(r) ELSE NoPath,
                                ![r].result = IF ok THEN "uploadResult" ELSE "null"]
  /\ UNCHANGED <<maxVideosPerDay, cronVars>>
  /\ UNCHANGED <<queueVars, pipeVars, cacheVars>>

AutoNext ==
  \/ \E r \in Runs : beginCreateAndPublish(r)
  \/ \E r \in Runs, ok \in BOOLEAN : generateContentIdeas(r, ok)
  \/ \E r \in Runs : callCreateVideo(r)
  \/ \E r \in Runs : stepCreateVideo(r)
  \/ \E r \in Runs : returnCreateVideo(r)
  \/ \E r \in Runs, ok \in BOOLEAN : optimizeForPlatform(r, ok)
  \/ \E r \in Runs, ok \in BOOLEAN : createThumbnail(r, ok)
  \/ \E r \in Runs, ok \in BOOLEAN : optimizeVideoMetadata(r, ok)
  \/ \E r \in Runs, ok \in BOOLEAN : uploadVideo(r, ok)
  \/ authenticate

\* --------------------------------------------------------------- scheduler
\* startAutomation(): returns at once while running; otherwise sets isRunning
\* and registers a two-hourly and a daily cron task
startAutomation ==
  /\ switches < MaxSwitches
  /\ switches' = switches + 1
  /\ IF isRunning
     THEN UNCHANGED <<isRunning, cronTasks>>
     ELSE /\ isRunning' = TRUE
          /\ cronTasks' = [create |-> cronTasks.create + 1, reset |-> cronTasks.reset + 1]
  /\ UNCHANGED <<cronTick, cronDue, cronLog>>
  /\ UNCHANGED <<run, videoCount, maxVideosPerDay>>
  /\ UNCHANGED <<queueVars, pipeVars, cacheVars>>

\* stopAutomation(): this.isRunning = false; the cron tasks stay registered
stopAutomation ==
  /\ switches < MaxSwitches
  /\ switches' = switches + 1
  /\ isRunning' = FALSE
  /\ UNCHANGED <<cronTasks, cronTick, cronDue, cronLog>>
  /\ UNCHANGED <<run, videoCount, maxVideosPerDay>>
  /\ UNCHANGED <<queueVars, pipeVars, cacheVars>>

\* the clock reaches the next even hour: every registered two-hourly task is due
cronTwoHourly ==
  /\ cronTick < MaxCronTicks
  /\ cronDue = 0
  /\ cronTick' = cronTick + 1
  /\ cronDue' = cronTasks.create
  /\ UNCHANGED <<isRunning, cronTasks, cronLog, switches>>
  /\ UNCHANGED <<run, videoCount, maxVideosPerDay>>
  /\ UNCHANGED <<queueVars, pipeVars, cacheVars>>

\* the callback of a two-hourly task: await this.createAndPublishVideo(), up
\* to the first await of the run (the cap check and the start of the run); the
\* callback does not read isRunning
cronCreateAndPublish(r) ==
  /\ cronDue > 0
  /\ cronDue' = cronDue - 1
  /\ run[r].stage = "idle"
  /\ \A q \in Runs : q < r => run[q].stage # "idle"
  /\ IF videoCount >= maxVideosPerDay
     THEN Abort(r)
     ELSE run' = [run EXCEPT ![r].stage = "ideas"]
  /\ cronLog' = Append(cronLog, [tick |-> cronTick, running |-> isRunning, run |-> r])
  /\ UNCHANGED <<isRunning, cronTasks, cronTick, switches>>
  /\ UNCHANGED <<videoCount, maxVideosPerDay>>
  /\ UNCHANGED <<queueVars, pipeVars, cacheVars>>

\* the callback of a daily task: this.videoCount = 0
cronDailyReset ==
  /\ cronTasks.reset > 0
  /\ videoCount # 0
  /\ videoCount' = 0
  /\ UNCHANGED cronVars
  /\ UNCHANGED <<run, maxVideosPerDay>>
  /\ UNCHANGED <<queueVars, pipeVars, cacheVars>>

\* the automation switched on and off through the web routes, and the clock
SchedNext ==
  \/ startAutomation
  \/ stopAutomation
  \/ cronTwoHourly
  \/ \E r \in Runs : cronCreateAndPublish(r)
  \/ cronDailyReset

\* the automation as constructed, on a day on which run-once requests may
\* already have published videos
SchedInit ==
  /\ CronIdle
  /\ run = [r \in Runs |-> IdleRun]
  /\ maxVideosPerDay \in {1, defaultMaxVideosPerDay}
  /\ videoCount \in 0..1

\* ================================================================= cache
Calls == 1..MaxCalls

cacheTtl == 3600
trendCacheTtl == 1800
aiCacheTtl == 86400

\* the ttl arguments of getOrSet: the /trends route's and the default
TTLs == {trendCacheTtl, cacheTtl}

\* what a fetchFunction can resolve to; "null" is JavaScript's null
FetchValues == {"a", "b", "null"}

\* getCacheKey(prefix, ...parts): `${prefix}:${parts.join(':')}`
getCacheKey(prefix, part) == <<prefix, part>>

AppKeys == {getCacheKey("trends", 0), getCacheKey("trends", 1)}

\* ---- strings are sequences of UTF-16 code units
Chars == {97, 32, 35831, 20320}

RECURSIVE StringsUpTo(_)
StringsUpTo(n) ==
  IF n = 0 THEN {<<>>}
  ELSE LET shorter == StringsUpTo(n - 1) IN
         shorter \cup {Append(s, c) : s \in shorter, c \in Chars}

Prompts == StringsUpTo(MaxPromptLen) \ {<<>>}

OptionSets == {"none", "useCacheTrue", "useCacheFalse"}

\* JSON.stringify(options): {}, {"useCache":true}, {"useCache":false}
JSONstringifyOptions(o) ==
  CASE o = "none" -> <<123, 125>>
    [] o = "useCacheTrue" ->
         <<123, 34, 117, 115, 101, 67, 97, 99, 104, 101, 34, 58, 116, 114, 117, 101, 125>>
    [] o = "useCacheFalse" ->
         <<123, 34, 117, 115, 101, 67, 97, 99, 104, 101, 34, 58, 102, 97, 108, 115, 101, 125>>

\* options.useCache !== false
useCache(o) == o # "useCacheFalse"

RECURSIVE hashFrom(_, _, _)
\* the loop of hashString on the 32-bit value hi * 2^16 + lo:
\* hash = ((hash << 5) - hash) + char; hash = hash & hash
hashFrom(hi, lo, str) ==
  IF str = <<>>
  THEN IF hi >= 32768 THEN (hi - 65536) * 65536 + lo ELSE hi * 65536 + lo
  ELSE LET t == lo * 31 + Head(str) IN
         hashFrom((hi * 31 + (t \div 65536)) % 65536, t % 65536, Tail(str))

hashString(str) == hashFrom(0, 0, str)

IsSpace(c) == c \in {9, 10, 11, 12, 13, 32, 160}

RECURSIVE collapseSpaces(_)
\* prompt.replace(/\s+/g, ' ')
collapseSpaces(s) ==
  IF s = <<>> THEN <<>>
  ELSE IF IsSpace(Head(s))
       THEN IF Len(s) > 1 /\ IsSpace(s[2])
            THEN collapseSpaces(Tail(s))
            ELSE <<32>> \o collapseSpaces(Tail(s))
       ELSE <<Head(s)>> \o collapseSpaces(Tail(s))

\* .trim() of a string whose whitespace runs are single spaces
trim(s) ==
  LET a == IF s # <<>> /\ Head(s) = 32 THEN Tail(s) ELSE s IN
    IF a # <<>> /\ a[Len(a)] = 32 THEN SubSeq(a, 1, Len(a) - 1) ELSE a

RECURSIVE removeAll(_, _)
\* s.replace(/xy/g, '') for a two-character phrase
removeAll(s, phrase) ==
  IF Len(s) < 2 THEN s
  ELSE IF s[1] = phrase[1] /\ s[2] = phrase[2]
       THEN removeAll(SubSeq(s, 3, Len(s)), phrase)
       ELSE <<Head(s)>> \o removeAll(Tail(s), phrase)

includes(s, sub) ==
  \E i \in 1..Len(s) : i + Len(sub) - 1 <= Len(s) /\ SubSeq(s, i, i + Len(sub) - 1) = sub

\* OpenAIService.optimizePrompt
optimizePrompt(prompt) ==
  LET spaced == trim(collapseSpaces(prompt))
      optimized == removeAll(removeAll(removeAll(spaced, <<35831, 20320>>),
                                       <<24110, 25105>>), <<20320, 33021>>)
  IN IF ~includes(optimized, <<31616, 27905>>)
        /\ ~includes(optimized, <<99, 111, 110, 99, 105, 115, 101>>)
     THEN optimized \o <<10, 10, 35831, 25552, 20379, 31616, 27905, 20934,
                         30830, 30340, 22238, 22797, 12290>>
     ELSE optimized

\* getCacheKey('ai_response', this.hashString(prompt + JSON.stringify(options)))
aiCacheKey(prompt, o) == getCacheKey("ai_response", hashString(prompt \o JSONstringifyOptions(o)))

\* ---- the Redis store: a function from the keys written so far to their entries

JSONstringify(v) == <<"json", v>>

JSONparse(serialized) == serialized[2]

\* redis.get: a key never written, or expired, is not there
redisGet(key) ==
  IF key \in DOMAIN store /\ now < store[key].expiresAt THEN store[key].value ELSE <<>>

\* CacheService.get: value ? JSON.parse(value) : null, and null on any error
get(key, fault) ==
  IF fault THEN "null"
  ELSE IF redisGet(key) # <<>> THEN JSONparse(redisGet(key)) ELSE "null"

\* CacheService.set: redis.setex(key, ttl, JSON.stringify(value)); an error is
\* swallowed and nothing is stored
set(key, value, ttl, fault) ==
  IF fault THEN store
  ELSE [k \in DOMAIN store \cup {key} |->
          IF k = key THEN [value |-> JSONstringify(value), expiresAt |-> now + ttl]
          ELSE store[k]]

Never == 0 - 1

IdleCall ==
  [pc |-> "idle", key |-> <<"none", 0>>, ttl |-> 0, value |-> "unset", invoked |-> 0,
   result |-> "unset", after |-> {}, readAt |-> Never, storedAt |-> Never,
   fault |-> FALSE]

\* the OpenAIService instances of the process: the one the automation flow
\* constructs, and those the aiProcessing processor constructs, one per job
Services == 1..MaxServices

\* response.data.usage of an upstream response
Usages ==
  {[prompt_tokens |-> n, completion_tokens |-> n + 1, total_tokens |-> n + n + 1] : n \in 1..MaxUsage}

NoUsage == [prompt_tokens |-> 0, completion_tokens |-> 0, total_tokens |-> 0]

\* this.pricing['gpt-4'], the configured default model, per token in
\* millionths of a dollar (0.03 and 0.06 dollars per 1000 tokens)
pricing == [input |-> 30, output |-> 60]

\* this.costTracker = { totalTokens: 0, totalCost: 0, requests: 0 }
NewCostTracker == [totalTokens |-> 0, totalCost |-> 0, requests |-> 0]

updateCostTracking_lastOnly(tracker, usage) ==
  [totalTokens |-> usage.total_tokens,
   totalCost |-> usage.prompt_tokens * pricing.input + usage.completion_tokens * pricing.output,
   requests |-> 1]

\* updateCostTracking(usage, model): three += on this.costTracker, no await
updateCostTracking(tracker, usage) ==
  [totalTokens |-> tracker.totalTokens + usage.total_tokens,
   totalCost |-> tracker.totalCost
                   + usage.prompt_tokens * pricing.input
                   + usage.completion_tokens * pricing.output,
   requests |-> tracker.requests + 1]

\* getCostSummary(): totalRequests and totalTokens of the instance's costTracker
getCostSummary(s) ==
  [totalRequests |-> costTracker[s].requests, totalTokens |-> costTracker[s].totalTokens]

\* what a memoized function returns when generateText gave null
NullResult == [ok |-> FALSE, from |-> <<>>]

IdleMemo ==
  [pc |-> "idle", fn |-> "none", args |-> <<>>, cacheKey |-> <<"none", 0>>,
   result |-> NullResult, hit |-> FALSE]

NoStatus == 0 - 1

IdleRetry ==
  [pc |-> "idle", maxRetries |-> 0, i |-> 0, outcomes |-> <<>>, waits |-> <<>>,
   lastError |-> NoStatus, result |-> 0]

IdleReq ==
  [pc |-> "idle", prompt |-> <<>>, options |-> "none", cacheKey |-> <<"none", 0>>,
   result |-> "unset", posts |-> 0, after |-> {}, fault |-> FALSE,
   service |-> 0, usage |-> NoUsage]

Requests == 1..MaxRequests

CacheIdle ==
  /\ memo = [m \in 1..MaxMemoCalls |-> IdleMemo]
  /\ retry = IdleRetry
  /\ store = [k \in {} |-> 0]
  /\ now = 0
  /\ call = [c \in Calls |-> IdleCall]
  /\ req = [q \in Requests |-> IdleReq]
  /\ costTracker = [s \in Services |-> NewCostTracker]

\* time passes
Tick ==
  /\ now < MaxTicks * trendCacheTtl
  /\ now' = now + trendCacheTtl
  /\ UNCHANGED <<store, call, req, costTracker>>
  /\ UNCHANGED <<queueVars, pipeVars, autoVars, memo, retry>>

\* getOrSet(key, fetchFunction, ttl) is called
getOrSet(c, key, ttl) ==
  /\ call[c].pc = "idle"
  /\ \A d \in Calls : d < c => call[d].pc # "idle"
  /\ call' = [call EXCEPT ![c].pc = "get", ![c].key = key, ![c].ttl = ttl,
                          ![c].after = {d \in Calls : call[d].pc = "done"}]
  /\ UNCHANGED <<store, now, req, costTracker>>
  /\ UNCHANGED <<queueVars, pipeVars, autoVars, memo, retry>>

\* let value = await this.get(key); if (value === null) ... else return value
getOrSet_get(c, fault) ==
  /\ call[c].pc = "get"
  /\ LET value == get(call[c].key, fault) IN
       call' = [call EXCEPT ![c].value = value,
                            ![c].readAt = now,
                            ![c].fault = fault,
                            ![c].pc = IF value = "null" THEN "fetch" ELSE "done",
                            ![c].result = IF value = "null" THEN @ ELSE value]
  /\ UNCHANGED <<store, now, req, costTracker>>
  /\ UNCHANGED <<queueVars, pipeVars, autoVars, memo, retry>>

\* value = await fetchFunction(); a rejection is caught by getOrSet's catch
getOrSet_fetch(c, out) ==
  /\ call[c].pc = "fetch"
  /\ call' = [call EXCEPT ![c].invoked = @ + 1,
                          ![c].value = IF out = "throws" THEN @ ELSE out,
                          ![c].pc = IF out = "throws" THEN "catch" ELSE "set"]
  /\ UNCHANGED <<store, now, req, costTracker>>
  /\ UNCHANGED <<queueVars, pipeVars, autoVars, memo, retry>>

\* await this.set(key, value, ttl); return value
getOrSet_set(c, fault) ==
  /\ call[c].pc = "set"
  /\ store' = set(call[c].key, call[c].value, call[c].ttl, fault)
  /\ call' = [call EXCEPT ![c].pc = "done",
                          ![c].result = call[c].value,
                          ![c].fault = @ \/ fault,
                          ![c].storedAt = IF fault THEN @ ELSE now]
  /\ UNCHANGED <<now, req, costTracker>>
  /\ UNCHANGED <<queueVars, pipeVars, autoVars, memo, retry>>

\* catch (error) { return await fetchFunction(); }
getOrSet_catch(c, out) ==
  /\ call[c].pc = "catch"
  /\ call' = [call EXCEPT ![c].invoked = @ + 1,
                          ![c].pc = "done",
                          ![c].result = IF out = "throws" THEN "raised" ELSE out]
  /\ UNCHANGED <<store, now, req, costTracker>>
  /\ UNCHANGED <<queueVars, pipeVars, autoVars, memo, retry>>

CacheNext ==
  \/ \E c \in Calls, key \in AppKeys, ttl \in TTLs : getOrSet(c, key, ttl)
  \/ \E c \in Calls, fault \in BOOLEAN : getOrSet_get(c, fault)
  \/ \E c \in Calls, out \in FetchValues \cup {"throws"} : getOrSet_fetch(c, out)
  \/ \E c \in Calls, fault \in BOOLEAN : getOrSet_set(c, fault)
  \/ \E c \in Calls, out \in FetchValues \cup {"throws"} : getOrSet_catch(c, out)
  \/ Tick

\* ---- OpenAIService.generateText
\* generateText(prompt, options) is called: the cache key is computed
generateText_call(q, s, prompt, o) ==
  /\ req[q].pc = "idle"
  /\ \A d \in Requests : d < q => req[d].pc # "idle"
  /\ req' = [req EXCEPT ![q].pc = IF useCache(o) THEN "get" ELSE "post",
                        ![q].prompt = prompt,
                        ![q].options = o,
                        ![q].service = s,
                        ![q].cacheKey = aiCacheKey(prompt, o),
                        ![q].after = {d \in Requests : req[d].pc = "done"}]
  /\ UNCHANGED <<store, now, call, costTracker>>
  /\ UNCHANGED <<queueVars, pipeVars, autoVars, memo, retry>>

\* const cached = await cacheService.get(cacheKey); if (cached) return cached
generateText_get(q, fault) ==
  /\ req[q].pc = "get"
  /\ LET cached == get(req[q].cacheKey, fault) IN
       req' = [req EXCEPT ![q].fault = fault,
                          ![q].pc = IF cached = "null" THEN "post" ELSE "done",
                          ![q].result = IF cached = "null" THEN @ ELSE cached]
  /\ UNCHANGED <<store, now, call, costTracker>>
  /\ UNCHANGED <<queueVars, pipeVars, autoVars, memo, retry>>

\* this.client.post('/chat/completions', ...): the text, or a throw that
\* safeExecute turns into null
generateText_post(q, up, usage) ==
  /\ req[q].pc = "post"
  /\ req' = [req EXCEPT ![q].posts = @ + 1,
                        ![q].result = IF up = "ok" THEN "text" ELSE "null",
                        ![q].usage = IF up = "ok" THEN usage ELSE @,
                        ![q].pc = IF up = "ok" /\ useCache(req[q].options)
                                  THEN "set" ELSE "done"]
  /\ costTracker' = IF up = "ok"
                    THEN [costTracker EXCEPT ![req[q].service] = updateCostTracking(@, usage)]
                    ELSE costTracker
  /\ UNCHANGED <<store, now, call>>
  /\ UNCHANGED <<queueVars, pipeVars, autoVars, memo, retry>>

\* await cacheService.set(cacheKey, result, config.cache.aiCacheTtl); return result
generateText_set(q, fault) ==
  /\ req[q].pc = "set"
  /\ store' = set(req[q].cacheKey, req[q].result, aiCacheTtl, fault)
  /\ req' = [req EXCEPT ![q].pc = "done", ![q].fault = @ \/ fault]
  /\ UNCHANGED <<now, call, costTracker>>
  /\ UNCHANGED <<queueVars, pipeVars, autoVars, memo, retry>>

\* the instance the automation flow constructs
AutomationService == 1

\* requests of every prompt made on one instance, the upstream reporting the
\* same usage for each
AINext ==
  \/ \E q \in Requests, prompt \in Prompts, o \in OptionSets :
       generateText_call(q, AutomationService, prompt, o)
  \/ \E q \in Requests, fault \in BOOLEAN : generateText_get(q, fault)
  \/ \E q \in Requests, up \in {"ok"} \cup TransientErrors :
       generateText_post(q, up, [prompt_tokens |-> 1, completion_tokens |-> 2, total_tokens |-> 3])
  \/ \E q \in Requests, fault \in BOOLEAN : generateText_set(q, fault)

\* the prompt "a"
LedgerPrompts == {<<97>>}

\* requests of one prompt made on any of the instances, the upstream reporting
\* any usage
LedgerNext ==
  \/ \E q \in Requests, s \in Services, prompt \in LedgerPrompts, o \in OptionSets :
       generateText_call(q, s, prompt, o)
  \/ \E q \in Requests, fault \in BOOLEAN : generateText_get(q, fault)
  \/ \E q \in Requests, up \in {"ok"} \cup TransientErrors, usage \in Usages :
       generateText_post(q, up, usage)
  \/ \E q \in Requests, fault \in BOOLEAN : generateText_set(q, fault)

QueueNext ==
  \/ addVideoGenerationJob
  \/ addTrendAnalysisJob
  \/ addVideoUploadJob
  \/ addAIProcessingJob
  \/ \E j \in JobIds : Dequeue(j)
  \/ \E j \in JobIds : PromoteDelayed(j)
  \/ \E j \in JobIds : videoGenerationProcessor(j)
  \/ \E j \in JobIds : trendAnalysisProcessor(j)
  \/ \E j \in JobIds : videoUploadProcessor(j)
  \/ \E j \in JobIds : aiProcessingProcessor(j)
  \/ authenticate

\* the queue service as the control scenarios use it: a saved token, jobs for
\* the trend-analysis and upload queues, and the three control calls
ControlNext ==
  \/ addTrendAnalysisJob
  \/ addVideoUploadJob
  \/ \E j \in JobIds : Dequeue(j)
  \/ \E j \in JobIds : PromoteDelayed(j)
  \/ \E j \in JobIds : trendAnalysisProcessor(j)
  \/ \E j \in JobIds : videoUploadProcessor(j)
  \/ \E q \in Queues : clearQueue(q)
  \/ \E q \in Queues : pauseQueue(q)
  \/ \E q \in Queues : resumeQueue(q)

\* the trend-analysis queue given jobs of several priorities
PrioNext ==
  \/ addTrendAnalysisJob
  \/ \E j \in JobIds : Dequeue(j)
  \/ \E j \in JobIds : PromoteDelayed(j)
  \/ \E j \in JobIds : trendAnalysisProcessor(j)

\* ---- calls by queue name
\* the names the web routes pass on: the four registered ones, one that names
\* nothing, and one that names a member every object inherits
QueueNames == Queues \cup {"nosuch", "constructor"}

NameMethods == {"getJobStatus", "getQueueStats", "clearQueue", "pauseQueue", "resumeQueue"}

\* this.queues[queueName] of the plain object this.queues = {}
queuesLookup(queueName) ==
  IF queueName \in Queues THEN "queue"
  ELSE IF queueName = "constructor" THEN "inherited"
  ELSE "undefined"

\* what a QueueService method called with queueName does before it acts on the
\* queue: if (!this.queues[queueName]) throw new Error(`队列不存在: ...`); an
\* inherited member passes the test and the call of its missing method throws
nameCheck(queueName) ==
  CASE queuesLookup(queueName) = "undefined" -> "queue does not exist"
    [] queuesLookup(queueName) = "inherited" -> "TypeError"
    [] queuesLookup(queueName) = "queue" -> "found"

\* getJobStatus(queueName, jobId) and getQueueStats(queueName) with any name,
\* and clearQueue, pauseQueue and resumeQueue with a name that is not registered
callByName(method, queueName, jobId) ==
  /\ method \in {"getJobStatus", "getQueueStats"} \/ queueName \notin Queues
  /\ lastCall' =
       [method |-> method, queueName |-> queueName,
        jobId |-> IF method = "getJobStatus" THEN jobId ELSE 0,
        outcome |->
          IF nameCheck(queueName) # "found" THEN nameCheck(queueName)
          ELSE IF method = "getQueueStats" THEN "stats"
          ELSE IF jobs[jobId].queue = queueName /\ jobs[jobId].state # "removed"
               THEN getState(jobId)
               ELSE "null"]
  /\ UNCHANGED <<jobs, nextId, cap, target, tokenSaved, paused, controlLog, spared, waitList, prios>>
  /\ UNCHANGED <<pipeVars, autoVars, cacheVars>>

\* the trend-analysis queue with its control calls and the calls by name
LookupNext ==
  \/ addTrendAnalysisJob
  \/ \E j \in JobIds : Dequeue(j)
  \/ \E j \in JobIds : PromoteDelayed(j)
  \/ \E j \in JobIds : trendAnalysisProcessor(j)
  \/ \E q \in Queues : clearQueue(q)
  \/ \E q \in Queues : pauseQueue(q)
  \/ \E q \in Queues : resumeQueue(q)
  \/ \E method \in NameMethods, queueName \in QueueNames, jobId \in 1..MaxJobs :
       callByName(method, queueName, jobId)

\* the worker of queue q as one process held back by the handlers of the
\* other queues: it takes a job only while no other queue runs one
worker_afterOthers(q) ==
  /\ \A other \in Queues \ {q} : ActiveCount(other) = 0
  /\ \E j \in JobIds : jobs[j].queue = q /\ Dequeue(j)

\* the worker of queue q (queue.process(concurrency, handler) of its own Bull
\* instance): it takes the next waiting job of q whenever q runs, has one and
\* has a free slot
worker(q) ==
  \E j \in JobIds : jobs[j].queue = q /\ Dequeue(j)

\* the trend-analysis and the upload queue with their workers, handlers that
\* may end or go on running, and pause and resume
WorkNext ==
  \/ addTrendAnalysisJob
  \/ addVideoUploadJob
  \/ \E q \in Queues : worker(q)
  \/ \E j \in JobIds : PromoteDelayed(j)
  \/ \E j \in JobIds : trendAnalysisProcessor(j)
  \/ \E j \in JobIds : videoUploadProcessor(j)
  \/ \E q \in Queues : pauseQueue(q)
  \/ \E q \in Queues : resumeQueue(q)

\* ------------------------------------------------ OpenAIService.smartRetry
\* what one invocation of fn gives: a value (200), or an error whose
\* response.status is 429, 500, 503 or 400, or an error without a response (0)
StatusOk == 200

ErrorStatuses == {429, 500, 503, 400, 0}

\* the delays of the catch block, without the Math.min
retryDelay_uncapped(status, i) ==
  IF status = 429 THEN 1000 * 2 ^ i ELSE 1000 * (i + 1)

\* Math.min(1000 * Math.pow(2, i), 10000) after a 429, 1000 * (i + 1) after a
\* status of 500 or more
retryDelay(status, i) ==
  IF status = 429 THEN Min(1000 * 2 ^ i, 10000) ELSE 1000 * (i + 1)

\* error.response?.status === 429 || error.response?.status >= 500
Retryable(status) == status = 429 \/ status >= 500

\* smartRetry(fn, maxRetries) is called: let lastError; for (let i = 0; ...
smartRetry_call(maxRetries) ==
  /\ retry.pc = "idle"
  /\ retry' = [retry EXCEPT !.maxRetries = maxRetries,
                            !.pc = IF 0 < maxRetries THEN "try" ELSE "raised"]
  /\ UNCHANGED <<store, now, call, req, costTracker, memo>>
  /\ UNCHANGED <<queueVars, pipeVars, autoVars>>

\* one pass of the loop body: return await fn(), or the catch block up to its
\* setTimeout or its break
smartRetry_try(outcome) ==
  /\ retry.pc = "try"
  /\ IF outcome = StatusOk
     THEN retry' = [retry EXCEPT !.outcomes = Append(@, outcome),
                                 !.result = Len(retry.outcomes) + 1,
                                 !.pc = "returned"]
     ELSE retry' = [retry EXCEPT !.outcomes = Append(@, outcome),
                                 !.lastError = outcome,
                                 !.waits = IF Retryable(outcome)
                                           THEN Append(@, retryDelay(outcome, retry.i))
                                           ELSE Append(@, 0),
                                 !.pc = IF Retryable(outcome) THEN "wait" ELSE "raised"]
  /\ UNCHANGED <<store, now, call, req, costTracker, memo>>
  /\ UNCHANGED <<queueVars, pipeVars, autoVars>>

\* the timer of the catch block fires: i++, the loop test, and after the
\* loop throw lastError
smartRetry_wake ==
  /\ retry.pc = "wait"
  /\ retry' = [retry EXCEPT !.i = @ + 1,
                            !.pc = IF retry.i + 1 < retry.maxRetries THEN "try" ELSE "raised"]
  /\ UNCHANGED <<store, now, call, req, costTracker, memo>>
  /\ UNCHANGED <<queueVars, pipeVars, autoVars>>

RetryNext ==
  \/ \E maxRetries \in 0..MaxRetries : smartRetry_call(maxRetries)
  \/ \E outcome \in {StatusOk} \cup ErrorStatuses : smartRetry_try(outcome)
  \/ smartRetry_wake

\* ------------------------------------------- memoized OpenAIService calls
MemoCalls == 1..MaxMemoCalls

\* titles, descriptions and topics: strings of a, A, B and the underscore
MemoChars == {97, 65, 66, 95}

RECURSIVE MemoStringsUpTo(_)
MemoStringsUpTo(n) ==
  IF n = 0 THEN {<<>>}
  ELSE LET shorter == MemoStringsUpTo(n - 1) IN
         shorter \cup {Append(s, c) : s \in shorter, c \in MemoChars}

\* titles and descriptions of the videos under optimization: "a" and "a_",
\* "a" and "_a"
MemoTitles == {<<97>>, <<97, 95>>}

MemoDescriptions == {<<97>>, <<95, 97>>}

\* tags.join(', ') of two tag lists
MemoTags == {<<97>>, <<97, 44, 32, 98>>}

MemoTopics == MemoStringsUpTo(MaxMemoLen) \ {<<>>}

MemoDurations == {30, 60}

RECURSIVE numberToString(_)
\* `${duration}` of a non-negative integer: its decimal digits
numberToString(n) ==
  IF n < 10 THEN <<48 + n>> ELSE numberToString(n \div 10) \o <<48 + (n % 10)>>

\* getCacheKey('metadata_optimization', this.hashString(`${title}_${description}`))
metadataCacheKey(videoTitle, description, tags) ==
  getCacheKey("metadata_optimization", hashString(videoTitle \o <<95>> \o description))

\* getCacheKey('video_script', this.hashString(`${topic}_${duration}`))
scriptCacheKey(topic, videoDuration) ==
  getCacheKey("video_script", hashString(topic \o <<95>> \o numberToString(videoDuration)))

\* await cacheService.get(cacheKey): the parsed entry, or null
cacheGet(key, fault) ==
  IF fault \/ redisGet(key) = <<>> THEN NullResult ELSE JSONparse(redisGet(key))

\* optimizeVideoMetadata(title, description, tags) is called
optimizeVideoMetadata_call(m, videoTitle, description, tags) ==
  /\ memo[m].pc = "idle"
  /\ \A d \in MemoCalls : d < m => memo[d].pc # "idle"
  /\ memo' = [memo EXCEPT ![m].pc = "get", ![m].fn = "optimizeVideoMetadata",
                          ![m].args = <<videoTitle, description, tags>>,
                          ![m].cacheKey = metadataCacheKey(videoTitle, description, tags)]
  /\ UNCHANGED <<store, now, call, req, costTracker>>
  /\ UNCHANGED <<queueVars, pipeVars, autoVars, retry>>

\* generateVideoScript(topic, duration) is called
generateVideoScript_call(m, topic, videoDuration) ==
  /\ memo[m].pc = "idle"
  /\ \A d \in MemoCalls : d < m => memo[d].pc # "idle"
  /\ memo' = [memo EXCEPT ![m].pc = "get", ![m].fn = "generateVideoScript",
                          ![m].args = <<topic, numberToString(videoDuration), <<>>>>,
                          ![m].cacheKey = scriptCacheKey(topic, videoDuration)]
  /\ UNCHANGED <<store, now, call, req, costTracker>>
  /\ UNCHANGED <<queueVars, pipeVars, autoVars, retry>>

\* const cached = await cacheService.get(cacheKey); if (cached) return cached
memoized_get(m, fault) ==
  /\ memo[m].pc = "get"
  /\ LET cached == cacheGet(memo[m].cacheKey, fault) IN
       memo' = [memo EXCEPT ![m].pc = IF cached.ok THEN "done" ELSE "generate",
                            ![m].hit = cached.ok,
                            ![m].result = cached]
  /\ UNCHANGED <<store, now, call, req, costTracker>>
  /\ UNCHANGED <<queueVars, pipeVars, autoVars, retry>>

\* const result = await this.generateText(prompt, ...): the answer to this
\* request's prompt, or null when the upstream call failed
memoized_generateText(m, ok) ==
  /\ memo[m].pc = "generate"
  /\ memo' = [memo EXCEPT ![m].pc = "set",
                          ![m].result = IF ok THEN [ok |-> TRUE, from |-> memo[m].args]
                                        ELSE NullResult]
  /\ UNCHANGED <<store, now, call, req, costTracker>>
  /\ UNCHANGED <<queueVars, pipeVars, autoVars, retry>>

\* await cacheService.set(cacheKey, result, config.cache.aiCacheTtl); return result
memoized_set(m, fault) ==
  /\ memo[m].pc = "set"
  /\ store' = set(memo[m].cacheKey, memo[m].result, aiCacheTtl, fault)
  /\ memo' = [memo EXCEPT ![m].pc = "done"]
  /\ UNCHANGED <<now, call, req, costTracker>>
  /\ UNCHANGED <<queueVars, pipeVars, autoVars, retry>>

MemoNext ==
  \/ \E m \in MemoCalls, videoTitle \in MemoTitles, description \in MemoDescriptions, tags \in MemoTags :
       optimizeVideoMetadata_call(m, videoTitle, description, tags)
  \/ \E m \in MemoCalls, topic \in MemoTopics, videoDuration \in MemoDurations :
       generateVideoScript_call(m, topic, videoDuration)
  \/ \E m \in MemoCalls, fault \in BOOLEAN : memoized_get(m, fault)
  \/ \E m \in MemoCalls, ok \in BOOLEAN : memoized_generateText(m, ok)
  \/ \E m \in MemoCalls, fault \in BOOLEAN : memoized_set(m, fault)

\* ========================================================= output naming
\* UTF-16 code units the titles are made of: a, Z, 9, _, space, the first and
\* the last CJK ideograph of the class, the code unit after the last one, the
\* long s (whose upper case is S), and a high surrogate
CodeUnits == {97, 90, 57, 95, 32, 19968, 40959, 40960, 383, 55357}

\* the code units long titles are filled up with: x and the full stop
PadUnits == {120, 46}

Underscore == 95

\* ".mp4"
Extension == <<46, 109, 112, 52>>

RECURSIVE SeqsUpTo(_, _)
SeqsUpTo(S, n) ==
  IF n = 0 THEN {<<>>}
  ELSE LET shorter == SeqsUpTo(S, n - 1)
       IN  shorter \cup {Append(s, c) : s \in {t \in shorter : Len(t) = n - 1}, c \in S}

\* the titles of the model: up to MaxTitleLen code units, alone or followed by
\* MaxPadLen fill units
TitleInputs ==
  {s \o [i \in 1..k |-> c] :
     s \in SeqsUpTo(CodeUnits, MaxTitleLen) \ {<<>>}, k \in {0, MaxPadLen}, c \in PadUnits}

\* Canonicalize of a pattern without the u flag: toUpperCase, except that a
\* code unit outside ASCII is never mapped into ASCII
Canonicalize(c) == IF c \in 97..122 THEN c - 32 ELSE c

\* the code units of the class a-z0-9\u4e00-\u9fff, canonicalized
ClassUnits == (65..90) \cup (48..57) \cup (19968..40959)

\* the code unit matches /[^a-z0-9\u4e00-\u9fff]/i
Replaced(c) == Canonicalize(c) \notin ClassUnits

\* s.substring(0, n)
substring(s, n) == SubSeq(s, 1, IF Len(s) < n THEN Len(s) ELSE n)

\* filename.replace(/[^a-z0-9\u4e00-\u9fff]/gi, '_') without the substring
sanitizeFilename_uncut(name) ==
  [i \in 1..Len(name) |-> IF Replaced(name[i]) THEN Underscore ELSE name[i]]

\* filename.replace(/[^a-z0-9\u4e00-\u9fff]/gi, '_').substring(0, 100)
sanitizeFilename(name) ==
  substring([i \in 1..Len(name) |-> IF Replaced(name[i]) THEN Underscore ELSE name[i]],
            nameLimit)

\* `${this.sanitizeFilename(title)}.mp4` in this.outputDir
outputName(t) == sanitizeFilename(t) \o Extension

\* one run of createVideoFromScript with the title under test, as far as the
\* output file goes: the path is computed from the title, and the
\* concatenation, when it succeeds, writes the file there (ffmpeg is run with
\* -y and overwrites)
nameOutput(ok) ==
  /\ Len(outputNames) < MaxNameRuns
  /\ outputNames' = Append(outputNames,
                           [name |-> sanitizeFilename(filename), path |-> outputName(filename),
                            written |-> ok])
  /\ outputDir' = IF ok THEN outputDir \cup {outputName(filename)} ELSE outputDir
  /\ UNCHANGED filename
  /\ UNCHANGED <<queueVars, cacheVars, autoVars>>
  /\ UNCHANGED <<pc, scenes, title, videoSegments, finalVideo, wrote, fs, renderVars, pipeLoad>>

NameNext == \E ok \in BOOLEAN : nameOutput(ok)

NameInit ==
  /\ filename \in TitleInputs
  /\ outputNames = <<>>
  /\ outputDir = {}

\* ========================================================= specifications
QueueIdle ==
  /\ lastCall = NoCall
  /\ jobs = [j \in JobIds |-> NoJob]
  /\ nextId = 1
  /\ cap = 0
  /\ target = {}
  /\ tokenSaved = FALSE
  /\ prios = {defaultPriority}
  /\ paused = [q \in Queues |-> FALSE]
  /\ controlLog = <<>>
  /\ spared = [j \in JobIds |-> "no"]
  /\ waitList = [q \in Queues |-> <<>>]

\* a mixed load of every kind of job, or a burst of one kind
QueueLoad ==
  /\ prios = {defaultPriority}
  /\ \/ /\ target = JobKinds
        /\ cap = MaxJobs
     \/ /\ \E k \in JobKinds : target = {k}
        /\ cap = MaxBurstJobs

\* the load of the control scenarios: a queue of one slot given more jobs than
\* it has slots, or that queue and a second one given a few jobs
ControlLoad ==
  /\ prios = {defaultPriority}
  /\ \/ /\ target = {<<"trendAnalysis", "analyzeTrends">>}
        /\ cap = MaxControlJobs
     \/ /\ target = {<<"trendAnalysis", "analyzeTrends">>, <<"videoUpload", "uploadVideo">>}
        /\ cap = MaxJobs

\* the load of the priority scenarios: jobs of the default priority and of
\* priorities 1..MaxPriority for the queue of one slot
PrioLoad ==
  /\ prios = 0..MaxPriority
  /\ target = {<<"trendAnalysis", "analyzeTrends">>}
  /\ cap = MaxPrioJobs

\* the load of the scheduling scenarios: jobs for a queue of one slot and for
\* a queue of two
LookupLoad ==
  /\ prios = {defaultPriority}
  /\ target = {<<"trendAnalysis", "analyzeTrends">>}
  /\ cap = MaxJobs

WorkLoad ==
  /\ prios = {defaultPriority}
  /\ target = {<<"trendAnalysis", "analyzeTrends">>, <<"videoUpload", "uploadVideo">>}
  /\ cap = MaxWorkJobs

LiveLoad ==
  /\ prios = {defaultPriority}
  /\ target = JobKinds
  /\ cap = MaxLiveJobs

Init ==
  /\ QueueInit
  /\ LiveLoad
  /\ PipeInit
  /\ AutoIdle
  /\ CacheIdle

QueueSpecInit ==
  /\ QueueInit
  /\ QueueLoad
  /\ PipeInit
  /\ AutoIdle
  /\ CacheIdle

PipeSpecInit ==
  /\ QueueIdle
  /\ PipeInit
  /\ AutoIdle
  /\ CacheIdle

ControlSpecInit ==
  /\ QueueInit
  /\ tokenSaved
  /\ ControlLoad
  /\ PipeInit
  /\ AutoIdle
  /\ CacheIdle

PrioSpecInit ==
  /\ QueueInit
  /\ tokenSaved
  /\ PrioLoad
  /\ PipeInit
  /\ AutoIdle
  /\ CacheIdle

CacheSpecInit ==
  /\ QueueIdle
  /\ PipeInit
  /\ AutoIdle
  /\ CacheIdle

LookupSpecInit ==
  /\ QueueInit
  /\ tokenSaved
  /\ LookupLoad
  /\ PipeInit
  /\ AutoIdle
  /\ CacheIdle

WorkSpecInit ==
  /\ QueueInit
  /\ tokenSaved
  /\ WorkLoad
  /\ PipeInit
  /\ AutoIdle
  /\ CacheIdle

SchedSpecInit ==
  /\ QueueIdle
  /\ PipeInit
  /\ SchedInit
  /\ CacheIdle

NameSpecInit ==
  /\ QueueIdle
  /\ PipeIdle
  /\ fs = [path \in Paths |-> Absent]
  /\ sceneBudget = MaxScenes
  /\ pipeBudget = MaxPipes
  /\ NameInit
  /\ AutoIdle
  /\ CacheIdle

AutoSpecInit ==
  /\ QueueIdle
  /\ PipeInit
  /\ AutoInit
  /\ CacheIdle

Next == QueueNext \/ ControlNext \/ PrioNext \/ PipeNext \/ AutoNext \/ CacheNext \/ AINext
          \/ LedgerNext \/ NameNext \/ WorkNext \/ SchedNext \/ MemoNext
          \/ LookupNext \/ RetryNext

Spec == Init /\ [][Next]_vars

QueueSpec == QueueSpecInit /\ [][QueueNext]_vars

\* the worker keeps taking jobs, handlers terminate, delays elapse
QueueFairness ==
  /\ \A j \in JobIds : WF_vars(Dequeue(j))
  /\ \A j \in JobIds : WF_vars(PromoteDelayed(j))
  /\ \A j \in JobIds : WF_vars(videoGenerationProcessor(j))
  /\ \A j \in JobIds : WF_vars(trendAnalysisProcessor(j))
  /\ \A j \in JobIds : WF_vars(videoUploadProcessor(j))
  /\ \A j \in JobIds : WF_vars(aiProcessingProcessor(j))

QueueLiveSpec == Init /\ [][QueueNext]_vars /\ QueueFairness

ControlSpec == ControlSpecInit /\ [][ControlNext]_vars

PrioSpec == PrioSpecInit /\ [][PrioNext]_vars

RenderSpecInit ==
  /\ QueueIdle
  /\ RenderInit
  /\ AutoIdle
  /\ CacheIdle

RenderSpec == RenderSpecInit /\ [][PipeNext]_vars

PipeSpec == PipeSpecInit /\ [][PipeNext]_vars

AutoSpec == AutoSpecInit /\ [][AutoNext]_vars

CacheSpec == CacheSpecInit /\ [][CacheNext]_vars

AISpecInit == CacheSpecInit

AISpec == AISpecInit /\ [][AINext]_vars

LedgerSpecInit == CacheSpecInit

LedgerSpec == LedgerSpecInit /\ [][LedgerNext]_vars

NameSpec == NameSpecInit /\ [][NameNext]_vars

SchedSpec == SchedSpecInit /\ [][SchedNext]_vars

MemoSpecInit == CacheSpecInit

MemoSpec == MemoSpecInit /\ [][MemoNext]_vars

LookupSpec == LookupSpecInit /\ [][LookupNext]_vars

RetrySpecInit == CacheSpecInit

RetrySpec == RetrySpecInit /\ [][RetryNext]_vars

\* each queue's worker keeps running; nothing is assumed of the handlers, which
\* may run for ever, nor of the delays
WorkFairness == \A q \in Queues : WF_vars(worker(q))

WorkSpec == WorkSpecInit /\ [][WorkNext]_vars /\ WorkFairness

\* ================================================================ claims
Submitted == {j \in JobIds : jobs[j].state # "none"}

Terminal(j) == jobs[j].state \in {"completed", "failed"}

\* the concurrency the specification states for each queue
StatedConcurrency(q) ==
  CASE q = "videoGeneration" -> maxConcurrentJobs
    [] q = "trendAnalysis" -> 1
    [] q = "videoUpload" -> 2
    [] q = "aiProcessing" -> 3

\* the maxAttempts the specification states for each queue
StatedMaxAttempts(q) ==
  CASE q = "videoGeneration" -> 3
    [] q = "trendAnalysis" -> 2
    [] q = "videoUpload" -> 3
    [] q = "aiProcessing" -> 2

\* C1: in every reachable state, each of the four queues has at most its
\* configured concurrency of jobs in state active
C1_ActiveWithinConcurrency ==
  \A q \in Queues : ActiveCount(q) <= StatedConcurrency(q)

\* C1 witness: the ai-processing queue is full (3 active) while a fourth job of
\* it waits for a slot
C1_Witness ==
  /\ ActiveCount("aiProcessing") = 3
  /\ \E j \in JobIds : jobs[j].queue = "aiProcessing" /\ jobs[j].state = "waiting"

C2_AttemptsBounded ==
  \A j \in Submitted :
    /\ jobs[j].attempts <= StatedMaxAttempts(jobs[j].queue)
    /\ (jobs[j].attemptsMade >= StatedMaxAttempts(jobs[j].queue)) => (jobs[j].state = "failed")

C2_FailedIsFinal ==
  \A j \in JobIds : (jobs[j].state = "failed") => (jobs'[j] = jobs[j])

\* C2: a job's count of execution attempts never exceeds the maxAttempts it was
\* submitted with; once all of them have failed the job is failed, and a failed
\* job is never executed (or changed) again
C2_AttemptsNeverExceedMax == [][C2_AttemptsBounded' /\ C2_FailedIsFinal]_vars

\* C2 witness: a job that used all three attempts, the last one failing too
C2_Witness ==
  \E j \in JobIds :
    /\ jobs[j].state = "failed"
    /\ jobs[j].attempts = 3
    /\ jobs[j].attemptsMade = 3

C7_TransientErrorFailsAttempt ==
  \A j \in Submitted :
    (jobs[j].queue = "aiProcessing" /\ jobs[j].upstream \in TransientErrors) =>
      /\ jobs[j].state # "completed"
      /\ jobs[j].attemptsMade >= 1

\* C8: a job with a permanent error (an ai-processing job of unknown type) is
\* failed after its first attempt and never executed again
C8_PermanentErrorNotRetried ==
  \A j \in Submitted :
    (jobs[j].type = "unknownType" /\ jobs[j].attemptsMade >= 1) =>
      /\ jobs[j].state = "failed"
      /\ jobs[j].attempts = 1

Running(p) == pc[p] \notin {"idle", "done"}

\* C6: when the render of any scene failed, createVideoFromScript produces no
\* video (it returns null) instead of concatenating the scenes that rendered
C6_NoVideoWhenSceneFails ==
  \A p \in Pipes :
    (pc[p] = "done" /\ \E k \in 1..Len(videoSegments[p]) : videoSegments[p][k] = NullPath)
      => (finalVideo[p] = "null")

\* C9: two pipeline invocations that overlap in time write disjoint sets of
\* temporary file paths
C9_TempPathsDisjoint ==
  \A p \in Pipes : \A q \in Pipes :
    (p # q /\ Running(p) /\ Running(q)) => (wrote[p] \cap wrote[q] = {})

\* C10: after createVideoFromScript returns, no per-scene file written by the
\* invocation remains, and after a failed run no file written by it remains
C10_NothingLeftBehind ==
  \A p \in Pipes :
    (pc[p] = "done") =>
      /\ \A i \in SceneIndexes : fs[<<"scene", i>>].by # p
      /\ (finalVideo[p] = "null") => (\A path \in Paths : fs[path].by # p)

Finished(r) == run[r].stage = "done"

Optimized(r) == run[r].optimizedVideoPath \notin {UnsetPath, NoPath}

\* C11: after a create-and-publish run in which platform optimization produced
\* a re-encoded file, the pre-optimization concatenated file has been deleted
C11_PreOptimizationFileDeleted ==
  \A r \in Runs : (Finished(r) /\ Optimized(r)) => ~Exists(run[r].videoPath)

\* the scene indexes named by a list of <<index, writer>> parts, in list order
Ascending(parts) ==
  \A a \in 1..Len(parts) : \A b \in 1..Len(parts) : (a < b) => (parts[a][1] < parts[b][1])

\* the step in which invocation p hands its list of scene files to concatenation
HandsOver(p) == pc[p] = "render" /\ pc'[p] = "concat"

\* C12: the list of scene files handed to concatenation names the rendered
\* scenes in ascending scene index, each once, whatever the renders did
C12_ConcatListInSceneOrder ==
  [][\A p \in Pipes :
       HandsOver(p) =>
         /\ Ascending(fs'[listFile(p)].parts)
         /\ {fs'[listFile(p)].parts[k][1] : k \in 1..Len(fs'[listFile(p)].parts)}
              = {i \in SceneIndexes : i < scenes[p] /\ videoSegments[p][i + 1] # NullPath}]_vars

\* C12 witness: a list of two scene files has been handed to concatenation
C12_Witness ==
  \E p \in Pipes :
    /\ pc[p] = "concat"
    /\ fs[listFile(p)].by = p
    /\ Len(fs[listFile(p)].parts) = 2

OptimizeFailed(r) == run[r].optimizedVideoPath = NoPath

ThumbnailFailed(r) == run[r].thumbnailPath = NoPath

\* the stages of run r that have produced their result, in the order of the flow
StagesInOrder(r) ==
  /\ (run[r].optimizedVideoPath # UnsetPath) =>
       (run[r].pipe # 0 /\ pc[run[r].pipe] = "done" /\ finalVideo[run[r].pipe] = "out")
  /\ (run[r].thumbnailPath # UnsetPath) => (run[r].optimizedVideoPath # UnsetPath)
  /\ (run[r].uploaded # UnsetPath) => (run[r].thumbnailPath # UnsetPath)

\* C13: the stages of the create-video flow run in the order segment, render,
\* concatenate, platform-optimize, thumbnail, and after a failed stage no later
\* stage runs and nothing is uploaded
C13_FailedStageAborts ==
  \A r \in Runs :
    /\ StagesInOrder(r)
    /\ OptimizeFailed(r) => (run[r].thumbnailPath = UnsetPath /\ run[r].uploaded = UnsetPath)
    /\ ThumbnailFailed(r) => (run[r].uploaded = UnsetPath)

Returned(c) == call[c].pc = "done"

\* call c computed a value and stored it
Stored(c) == call[c].storedAt # Never

\* call d was made after call c had returned, for the same key, and no third
\* call has written the key
Sequential(c, d) ==
  /\ Returned(c)
  /\ Returned(d)
  /\ c \in call[d].after
  /\ call[c].key = call[d].key
  /\ \A e \in Calls \ {c, d} : call[e].key = call[c].key => ~Stored(e)

\* C14: of two sequential getOrSet calls for a key whose store works, the
\* second, made within ttl of the first one's store, does not invoke f and
\* returns the stored value; made after ttl has elapsed, it invokes f again
C14_SecondCallWithinTtlIsServed ==
  \A c \in Calls : \A d \in Calls :
    (Sequential(c, d) /\ Stored(c) /\ ~call[d].fault) =>
      IF call[d].readAt < call[c].storedAt + call[c].ttl
      THEN call[d].invoked = 0 /\ call[d].result = call[c].result
      ELSE call[d].invoked >= 1

\* calls c and d overlap: neither was made after the other had returned
Overlapping(c, d) ==
  /\ c # d
  /\ Returned(c)
  /\ Returned(d)
  /\ c \notin call[d].after
  /\ d \notin call[c].after
  /\ call[c].key = call[d].key

\* the call met no store failure and its fetchFunction did not throw
Undisturbed(c) == ~call[c].fault /\ call[c].invoked <= 1 /\ call[c].result # "raised"

\* C15: two overlapping getOrSet calls for the same key, absent when the first
\* of them read it, invoke the compute function at most once between them and
\* return the same value
C15_OverlappingCallsComputeOnce ==
  \A c \in Calls : \A d \in Calls :
    (Overlapping(c, d) /\ Undisturbed(c) /\ Undisturbed(d) /\ call[c].invoked = 1) =>
      /\ call[c].invoked + call[d].invoked <= 1
      /\ call[c].result = call[d].result

\* C16: a getOrSet call that met a store failure (on its read or on its write)
\* and whose compute function succeeded has invoked it, returns the computed
\* value without raising, and has cached nothing
C16_StoreFailureNeverCaches ==
  \A c \in Calls :
    (Returned(c) /\ call[c].fault /\ call[c].invoked <= 1) =>
      /\ call[c].invoked = 1
      /\ call[c].result = call[c].value
      /\ call[c].result # "raised"
      /\ ~Stored(c)

Answered(q) == req[q].pc = "done"

\* same prompt after normalization, and the same material options: both
\* requests use the cache, which is all that useCache: true and its absence say
SemanticallyIdentical(p, q) ==
  /\ optimizePrompt(req[p].prompt) = optimizePrompt(req[q].prompt)
  /\ useCache(req[p].options)
  /\ useCache(req[q].options)

\* C17: of two semantically identical generateText requests made one after the
\* other within the AI cache TTL, the store working and the first one answered
\* by the upstream, the second makes no upstream call and returns the cached text
C17_IdenticalRequestsCallUpstreamOnce ==
  \A p \in Requests : \A q \in Requests :
    ( /\ Answered(p)
      /\ Answered(q)
      /\ p \in req[q].after
      /\ SemanticallyIdentical(p, q)
      /\ req[p].posts = 1
      /\ req[p].result = "text"
      /\ ~req[p].fault
      /\ ~req[q].fault ) =>
      /\ req[q].posts = 0
      /\ req[q].result = req[p].result

\* the step in which clearQueue(q) runs
ClearStep(q) == controlLog' = Append(controlLog, <<"clear", q>>)

\* the step in which pauseQueue(q) runs
PauseStep(q) == controlLog' = Append(controlLog, <<"pause", q>>)

JobsOf(q) == {j \in JobIds : jobs[j].queue = q}

\* C18: after clearQueue(q), q holds no waiting, delayed, completed or failed
\* job, and its active jobs are the same jobs in the same state as before
C18_ClearRemovesAllNonActive ==
  [][\A q \in Queues :
       ClearStep(q) =>
         \A j \in JobsOf(q) :
           /\ jobs'[j].state \notin {"waiting", "delayed", "completed", "failed"}
           /\ (jobs[j].state = "active") => (jobs'[j] = jobs[j])]_vars

WaitingJobs(q) == {j \in JobsOf(q) : jobs[j].state = "waiting"}

\* a removed job is gone: no attempt is ever made on it
RemovedIsFinal ==
  \A j \in JobIds : (jobs[j].state = "removed") => (jobs'[j] = jobs[j])

\* an active job leaves the active state only by its processor's outcome
ActiveEndsByItself ==
  \A j \in JobIds :
    (jobs[j].state = "active") => (jobs'[j].state \in {"active", "completed", "delayed", "failed"})

\* the processor of job j ends the attempt it is running
AttemptEnds(j) ==
  \/ videoGenerationProcessor(j)
  \/ trendAnalysisProcessor(j)
  \/ videoUploadProcessor(j)
  \/ aiProcessingProcessor(j)

\* C19: clearQueue(q) called while one job of q is active and two are waiting
\* removes the two waiting jobs, which are never executed, and leaves the active
\* job as it is: its processor goes on and ends the attempt by its own outcome,
\* a completion recording its result
C19_ClearSparesActiveJob ==
  /\ [][/\ \A q \in Queues :
             (ClearStep(q) /\ Cardinality(ActiveJobs(q)) = 1 /\ Cardinality(WaitingJobs(q)) = 2) =>
               /\ \A j \in WaitingJobs(q) : jobs'[j].state = "removed"
               /\ \A j \in ActiveJobs(q) : jobs'[j] = jobs[j]
        /\ RemovedIsFinal
        /\ ActiveEndsByItself]_vars
  /\ [](\A j \in JobIds :
          (spared[j] = "clear" /\ jobs[j].state = "completed") => (jobs[j].returnvalue # "unset"))
  /\ [](\A j \in JobIds :
          (spared[j] = "clear" /\ jobs[j].state = "active") => ENABLED AttemptEnds(j))

\* C19 witness: the job that was active at the clear has completed with its
\* result, and the two jobs that were waiting are gone without an attempt
C19_Witness ==
  \E j \in JobIds :
    /\ spared[j] = "clear"
    /\ jobs[j].state = "completed"
    /\ jobs[j].returnvalue # "unset"
    /\ Cardinality({k \in JobsOf(jobs[j].queue) :
                      jobs[k].state = "removed" /\ jobs[k].attempts = 0}) = 2

\* the step in which resumeQueue(q) takes effect
ResumeStep(q) == paused[q] /\ ~paused'[q]

\* C20: while q is paused no job of q goes from waiting or delayed to active,
\* and every active job's processor keeps running to the end of its attempt;
\* in a queue that is not paused (again) a waiting job is taken as soon as a
\* slot is free; pauseQueue and resumeQueue change no job and no other queue
C20_PauseStopsDequeuesOnly ==
  /\ [][/\ \A j \in JobIds :
             (jobs[j].state \in {"waiting", "delayed"} /\ jobs'[j].state = "active") =>
               ~paused[jobs[j].queue]
        /\ \A q \in Queues :
             (PauseStep(q) \/ ResumeStep(q)) =>
               /\ jobs' = jobs
               /\ \A o \in Queues \ {q} : paused'[o] = paused[o]]_vars
  /\ [](\A j \in JobIds : (jobs[j].state = "active") => ENABLED AttemptEnds(j))
  /\ [](\A j \in JobIds :
          ( /\ jobs[j].state = "waiting"
            /\ ~paused[jobs[j].queue]
            /\ ActiveCount(jobs[j].queue) < StatedConcurrency(jobs[j].queue) ) =>
            \E k \in JobIds :
              /\ jobs[k].queue = jobs[j].queue
              /\ jobs[k].state = "waiting"
              /\ ENABLED Dequeue(k))

\* C20 witness: in a paused queue the job that was active at the pause has
\* completed, while a job that was waiting has still not been attempted
C20_Witness ==
  \E j \in JobIds : \E k \in JobIds :
    /\ jobs[j].queue \in Queues
    /\ paused[jobs[j].queue]
    /\ spared[j] = "pause"
    /\ jobs[j].state = "completed"
    /\ jobs[k].queue = jobs[j].queue
    /\ jobs[k].state = "waiting"
    /\ jobs[k].attempts = 0

\* the five states the specification gives a job
StatedJobStates == {"waiting", "active", "completed", "failed", "delayed"}

\* the state changes the specification allows
StatedMoves ==
  {<<"waiting", "active">>, <<"delayed", "waiting">>, <<"active", "completed">>,
   <<"active", "delayed">>, <<"active", "failed">>}

\* the job has a record in its queue (it was submitted and not removed)
Known(j) == jobs[j].state \notin {"none", "removed"}

\* the reported state of every known job is one of the five
ReportedStateIsStated == \A j \in JobIds : Known(j) => (getState(j) \in StatedJobStates)

\* the reported state of a job that stays known changes along a stated move only
MovesAreStated ==
  \A j \in JobIds :
    (Known(j) /\ Known(j)' /\ getState(j)' # getState(j)) =>
      (<<getState(j), getState(j)'>> \in StatedMoves)

\* the state a job is stored in, whatever the queue's pause flag, changes along
\* a stated move only, and completed and failed are never left
StoredMovesAreStated ==
  \A j \in JobIds :
    /\ (Known(j) /\ Known(j)' /\ jobs'[j].state # jobs[j].state) =>
         (<<jobs[j].state, jobs'[j].state>> \in StatedMoves)
    /\ (jobs[j].state \in {"completed", "failed"}) => (jobs'[j].state = jobs[j].state)

\* C21: at any time a job is reported in exactly one of waiting, active,
\* completed, failed, delayed; its state changes only along waiting->active,
\* delayed->waiting, active->completed, active->delayed, active->failed, and
\* nothing leaves completed or failed
C21_FiveStatesAndTheirMoves ==
  [][/\ ReportedStateIsStated'
     /\ MovesAreStated
     /\ \A j \in JobIds : Terminal(j) => (getState(j)' = getState(j))]_vars

\* the part of C21 that holds: the stored state moves as stated
StoredStateMovesAsStated == [][StoredMovesAreStated]_vars

\* the failedReason and returnValue fields of the record getJobStatus returns
\* are the job's failedReason and returnvalue as the backend stores them
ReportsResult(j) == jobs[j].returnvalue \notin {"unset", "null"}

ReportsFailure(j) == jobs[j].failedReason # "unset"

\* neither field of a completed or failed job changes any more
TerminalFieldsKept ==
  \A j \in JobIds :
    Terminal(j) =>
      /\ jobs'[j].returnvalue = jobs[j].returnvalue
      /\ jobs'[j].failedReason = jobs[j].failedReason

\* C22: the record getJobStatus returns never has both returnValue and
\* failedReason set, so a job completed on a retry reports its result and no
\* failure reason, and neither field changes once the job is completed or failed
C22_ResultAndReasonExclusive ==
  [][/\ \A j \in JobIds : ~(ReportsResult(j)' /\ ReportsFailure(j)')
     /\ TerminalFieldsKept]_vars

\* the part of C22 that holds: the fields of a terminal job are final
TerminalFieldsAreFinal == [][TerminalFieldsKept]_vars

\* the job waits for its retry number jobs[j].attemptsMade
AwaitsRetry(j) == jobs[j].state = "delayed"

\* C23: the delay before retry k of a video-generation job (exponential, base
\* 2000 ms) is 2000 * 2^(k-1) ms, no ceiling being configured below it; the
\* delay of a trend-analysis job is 5000 ms and that of an AI-processing job
\* 1000 ms before every retry
C23_BackoffDelays ==
  \A j \in JobIds :
    AwaitsRetry(j) =>
      /\ (jobs[j].queue = "videoGeneration") =>
           (jobs[j].delay = 2000 * (2 ^ (jobs[j].attemptsMade - 1)))
      /\ (jobs[j].queue = "trendAnalysis") => (jobs[j].delay = 5000)
      /\ (jobs[j].queue = "aiProcessing") => (jobs[j].delay = 1000)

\* the part of C23 that holds: the first retry waits the base delay, and a
\* fixed backoff never changes
FirstAndFixedDelays ==
  \A j \in JobIds :
    AwaitsRetry(j) =>
      /\ (jobs[j].attemptsMade = 1) => (jobs[j].delay = backoffDelay(jobs[j].queue))
      /\ (jobs[j].queue = "trendAnalysis") => (jobs[j].delay = 5000)
      /\ (jobs[j].queue = "aiProcessing") => (jobs[j].delay = 1000)

\* the waiting jobs of every queue are exactly the jobs on its wait list
WaitListHoldsWaiting ==
  \A q \in Queues :
    /\ {waitList[q][i] : i \in 1..Len(waitList[q])} = {j \in JobIds : jobs[j].queue = q /\ jobs[j].state = "waiting"}
    /\ Len(waitList[q]) = Cardinality({j \in JobIds : jobs[j].queue = q /\ jobs[j].state = "waiting"})

\* job j is taken from the waiting jobs of its queue in this step
Taken(j) == jobs[j].state = "waiting" /\ jobs'[j].state = "active"

\* job k, waiting in the same queue, should have been taken before j: its
\* priority value is lower, or the same and it was submitted earlier
Precedes(k, j) ==
  /\ k # j
  /\ jobs[k].queue = jobs[j].queue
  /\ jobs[k].state = "waiting"
  /\ \/ jobs[k].priority < jobs[j].priority
     \/ jobs[k].priority = jobs[j].priority /\ k < j

\* C24: a slot that dequeues takes the waiting job of the lowest priority
\* value, the default 0 included, and of several with that value the one
\* submitted earliest; no job is dequeued while a job of lower value waits
C24_LowestPriorityValueFirst ==
  [][\A j \in JobIds : Taken(j) => \A k \in JobIds : ~Precedes(k, j)]_vars

\* the part of C24 that holds: of jobs that are waiting to be attempted for the
\* first time and carry priorities of 1 and above, the one of the lowest value
\* is taken first, and of equal values the one submitted earliest; jobs of the
\* default priority are taken in their order of arrival in the line
PrioritizedInOrder ==
  [][\A j \in JobIds : Taken(j) =>
       \A k \in JobIds :
         (Precedes(k, j) /\ jobs[k].attempts = 0 /\ jobs[j].attempts = 0) =>
           (jobs[k].priority = 0 /\ jobs[j].priority > 0)]_vars

\* C25: under any interleaving of createAndPublishVideo executions the number
\* of videos published since the last daily reset (videoCount) never exceeds
\* maxVideosPerDay
C25_VideoCountWithinDailyCap == videoCount <= maxVideosPerDay

\* the calls made on instance s that received an upstream response
Responded(s) == {q \in Requests : req[q].service = s /\ req[q].usage # NoUsage}

RECURSIVE ReportedTokens(_)
\* the sum of the token counts the upstream reported to the calls of set S
ReportedTokens(S) ==
  IF S = {} THEN 0
  ELSE LET q == CHOOSE x \in S : TRUE IN req[q].usage.total_tokens + ReportedTokens(S \ {q})

\* two calls overlap when neither had returned before the other was made
Overlap(p, q) ==
  /\ p # q
  /\ req[p].pc # "idle"
  /\ req[q].pc # "idle"
  /\ p \notin req[q].after
  /\ q \notin req[p].after

\* C26: whatever the interleaving of the text-generation calls on one ledger,
\* the ledger shows one request and the reported token count for every call
\* that received an upstream response, nothing for a call served from the cache
\* or failing upstream, and its counters never decrease
C26_LedgerCountsEveryResponse ==
  /\ [](\A s \in Services :
          /\ costTracker[s].requests = Cardinality(Responded(s))
          /\ costTracker[s].totalTokens = ReportedTokens(Responded(s)))
  /\ [][\A s \in Services :
          /\ costTracker'[s].requests >= costTracker[s].requests
          /\ costTracker'[s].totalTokens >= costTracker[s].totalTokens
          /\ costTracker'[s].totalCost >= costTracker[s].totalCost]_vars

\* C26 witness: two overlapping calls on one instance both got an upstream
\* response, and the ledger shows two requests
C26_Witness ==
  \E p \in Requests : \E q \in Requests :
    /\ Overlap(p, q)
    /\ req[p].service = req[q].service
    /\ req[p].pc = "done"
    /\ req[q].pc = "done"
    /\ {p, q} \subseteq Responded(req[p].service)
    /\ costTracker[req[p].service].requests = 2

\* the upstream calls made in the process so far that were answered
UpstreamCalls == {q \in Requests : req[q].usage # NoUsage}

\* C27: the usage ledger is one accumulator for the whole process: the request
\* count of a snapshot is the number of upstream calls made in the process since
\* it started (the service has no reset()), whichever worker job or flow made
\* them, and the totals are never set back
C27_OneLedgerForTheProcess ==
  /\ [](\A s \in Services : getCostSummary(s).totalRequests = Cardinality(UpstreamCalls))
  /\ [][\A s \in Services :
          /\ costTracker'[s].requests >= costTracker[s].requests
          /\ costTracker'[s].totalTokens >= costTracker[s].totalTokens]_vars

\* the step in which invocation p parses its script and enters the scene loop
StartsLoop(p) == pc[p] = "idle" /\ pc'[p] = "render"

\* the step in which invocation p calls the renderer for its next scene
RenderStep(p) == Len(videoSegments'[p]) # Len(videoSegments[p])

\* the duration invocation p passed to the renderer in its latest call
LastCall(p) == renderCall[p][Len(renderCall[p])]

\* the step in which invocation p leaves the scene loop
LeavesLoop(p) == pc[p] = "render" /\ pc'[p] = "concat"

\* the step in which the concatenation of invocation p ends
ConcatStep(p) == pc[p] = "concat" /\ pc'[p] = "cleanup"

\* the step in which invocation p deletes its scene files
CleanupStep(p) == pc[p] = "cleanup" /\ pc'[p] = "done"

\* every scene of invocation p was rendered
AllRendered(p) ==
  /\ Len(videoSegments[p]) = scenes[p]
  /\ \A k \in 1..Len(videoSegments[p]) : videoSegments[p][k] # NullPath

\* the upper end of scene.duration = 3 + Math.random() * 2, in ms
JitterBound == 5000

SafeUnits == (97..122) \cup (65..90) \cup (48..57) \cup (19968..40959) \cup {Underscore}

\* C29: the output path is a function of the title alone (every run made with
\* a title computes the same path, and the runs that write leave one file, the
\* later overwriting the earlier), and the sanitized name has at most 100
\* characters, all of them letters, digits, CJK ideographs or underscores, and
\* sanitizing it again leaves it as it is
C29_OutputPathFromSanitizedTitle ==
  /\ \A i, k \in 1..Len(outputNames) : outputNames[i].path = outputNames[k].path
  /\ Cardinality(outputDir) <= 1
  /\ \A i \in 1..Len(outputNames) :
       /\ outputNames[i].written => (outputNames[i].path \in outputDir)
       /\ outputNames[i].path = outputNames[i].name \o Extension
       /\ Len(outputNames[i].name) <= 100
       /\ \A k \in 1..Len(outputNames[i].name) : outputNames[i].name[k] \in SafeUnits
       /\ sanitizeFilename(outputNames[i].name) = outputNames[i].name

\* C29 witness: two runs with one title of more than 100 characters, some of
\* them replaced, have both written, and the output directory holds one file
C29_Witness ==
  /\ Len(outputNames) >= 2
  /\ outputNames[1].written /\ outputNames[2].written
  /\ Len(filename) > 100
  /\ outputNames[1].name # substring(filename, 100)
  /\ Len(outputNames[1].name) = 100
  /\ Cardinality(outputDir) = 1

\* job j is the next one of its queue, which is running and has a free slot
NextWithFreeSlot(j) ==
  /\ jobs[j].state = "waiting"
  /\ ~paused[jobs[j].queue]
  /\ waitList[jobs[j].queue] # <<>>
  /\ Head(waitList[jobs[j].queue]) = j
  /\ ActiveCount(jobs[j].queue) < StatedConcurrency(jobs[j].queue)

\* the queue of job j has been paused
PausedMeanwhile(j) == jobs[j].queue \in Queues /\ paused[jobs[j].queue]

\* C30: while a queue is not paused, a waiting job of it with a slot of the
\* queue free eventually becomes active, whatever the other queues hold and
\* although their handlers may run for ever
C30_QueuesWorkConservingAndIndependent ==
  \A j \in 1..MaxWorkJobs :
    NextWithFreeSlot(j) ~> (jobs[j].state = "active" \/ PausedMeanwhile(j))

\* C30 witness: a job of the upload queue, submitted after the one slot of the
\* trend-analysis queue was taken, is running while that slot is still taken
C30_Witness ==
  \E j, k \in JobIds :
    /\ k < j
    /\ jobs[k].queue = "trendAnalysis" /\ jobs[k].state = "active" /\ jobs[k].attempts = 1
    /\ jobs[j].queue = "videoUpload" /\ jobs[j].state = "active"
    /\ ActiveCount("trendAnalysis") = StatedConcurrency("trendAnalysis")
    /\ ~paused["videoUpload"]

\* C31: a video-generation job whose handler is given a valid payload and
\* whose renders and concatenation succeed is completed with the path of the
\* final video as its result: no attempt of such a job fails before the
\* pipeline is called, so the job never ends failed for want of a VideoEditor
C31_VideoJobCompletesWithOutputPath ==
  \A j \in JobIds :
    (jobs[j].queue = "videoGeneration") =>
      /\ jobs[j].failedReason # "VideoEditor is not a constructor"
      /\ (jobs[j].state \in {"completed", "failed"}) =>
           (jobs[j].state = "completed" /\ jobs[j].returnvalue \notin {"unset", "null"})

\* C32: a step of createAndPublishVideo raises videoCount only when it ends a
\* run whose upload succeeded, and a run that returns null (video creation or
\* upload failed) leaves videoCount as it was
C32_CountedOnlyWhenUploaded ==
  [][/\ (videoCount' > videoCount) =>
          \E r \in Runs : run[r].result = "unset" /\ run'[r].result = "uploadResult"
     /\ \A r \in Runs :
          (run[r].result = "unset" /\ run'[r].result = "null") => (videoCount' = videoCount)]_vars

\* C33: once stopAutomation() has returned, the scheduler starts no
\* createAndPublishVideo until startAutomation() is called again: every call
\* the scheduler makes is made while isRunning is true
C33_NoScheduledStartAfterStop ==
  \A i \in 1..Len(cronLog) : cronLog[i].running

\* C34: whatever startAutomation() and stopAutomation() calls were made, at
\* most one two-hourly and at most one daily task are registered, and a
\* two-hour tick starts at most one createAndPublishVideo
C34_OneScheduleOfEachKind ==
  /\ cronTasks.create <= 1
  /\ cronTasks.reset <= 1
  /\ \A i, k \in 1..Len(cronLog) : (cronLog[i].tick = cronLog[k].tick) => (i = k)

\* C35: one getOrSet(key, f, ttl) call invokes f at most once, also when f
\* fails, and a call whose f failed raises the failure to its caller
C35_FetchInvokedAtMostOnce ==
  \A c \in Calls :
    /\ call[c].invoked <= 1
    /\ (call[c].pc = "done" /\ call[c].invoked > 1) => (call[c].result = "raised")

\* C36: a memoized result is returned only to a request identical to the one
\* that produced it: a call of optimizeVideoMetadata or generateVideoScript
\* answered from the cache has the arguments of the call whose result it gets
C36_CachedOnlyForIdenticalRequest ==
  \A m \in MemoCalls :
    (memo[m].pc = "done" /\ memo[m].hit) => (memo[m].result.from = memo[m].args)

\* C37: getJobStatus, getQueueStats, clearQueue, pauseQueue and resumeQueue
\* called with a name that is not a registered queue fail with the
\* queue-does-not-exist error and change no queue and no job, and
\* getJobStatus on a registered queue with an unknown job id returns null
C37_UnknownQueueNameRejected ==
  /\ (lastCall.method # "none" /\ lastCall.queueName \notin Queues) =>
       (lastCall.outcome = "queue does not exist")
  /\ ( /\ lastCall.method = "getJobStatus"
       /\ lastCall.queueName \in Queues
       /\ jobs[lastCall.jobId].state = "none" ) => (lastCall.outcome = "null")

\* the statuses after which smartRetry is to try again
StatedRetryable == {429, 500, 503}

\* the wait stated for the failure of the invocation numbered i (from 0)
StatedWait(status, i) ==
  IF status = 429 THEN (IF 1000 * 2 ^ i < 10000 THEN 1000 * 2 ^ i ELSE 10000)
  ELSE 1000 * (i + 1)

\* C38: smartRetry(fn, maxRetries) invokes fn at most maxRetries times and
\* returns the value of the first invocation that succeeds; after a failure
\* that is neither a 429 nor a 5xx it invokes fn no more; when every permitted
\* invocation failed it raises the last error; it waits min(1000 * 2^i, 10000)
\* ms after the 429 failure of invocation i and 1000 * (i + 1) ms after its 5xx
\* failure
C38_SmartRetryBounded ==
  LET n == Len(retry.outcomes) IN
    /\ n <= retry.maxRetries
    /\ \A k \in 1..(n - 1) : retry.outcomes[k] \in StatedRetryable
    /\ (retry.pc = "returned") <=> (n > 0 /\ retry.outcomes[n] = 200)
    /\ (retry.pc = "returned") => (retry.result = n)
    /\ (n > 0 /\ retry.outcomes[n] \notin StatedRetryable \cup {200}) => (retry.pc = "raised")
    /\ (retry.pc = "raised" /\ n > 0) =>
         /\ retry.lastError = retry.outcomes[n]
         /\ retry.outcomes[n] # 200
         /\ (n = retry.maxRetries \/ retry.outcomes[n] \notin StatedRetryable)
    /\ (retry.pc = "try") => (n < retry.maxRetries)
    /\ \A k \in 1..Len(retry.waits) :
         (retry.outcomes[k] \in StatedRetryable) =>
           (retry.waits[k] = StatedWait(retry.outcomes[k], k - 1))

\* C38 witness: five invocations answered 429 have all failed, the waits were
\* 1, 2, 4, 8 and 10 seconds, and the last error is raised
C38_Witness ==
  /\ retry.pc = "raised"
  /\ retry.maxRetries = 5
  /\ retry.outcomes = <<429, 429, 429, 429, 429>>
  /\ retry.waits = <<1000, 2000, 4000, 8000, 10000>>
  /\ retry.lastError = 429

RECURSIVE SumCalls(_)
\* the sum of a list of durations
SumCalls(s) == IF s = <<>> THEN 0 ELSE Head(s) + SumCalls(Tail(s))

\* the lower end of scene.duration = 3 + Math.random() * 2, in ms
SceneFloor == 3000

\* C39: each scene of a run is rendered with min(scene.duration, D / sceneCount)
\* (the call's duration is at most D / sceneCount, and it is either that share
\* or a scene duration of the jitter range), so the durations passed to the
\* renderer by one run never add up to more than the requested duration D
C39_RenderedDurationsWithinBudget ==
  /\ [](\A p \in Pipes : (pc[p] = "render") => (SumCalls(renderCall[p]) <= duration[p]))
  /\ [][\A p \in Pipes :
          RenderStep(p) =>
            /\ renderCall'[p] = Append(renderCall[p], LastCall(p)')
            /\ LastCall(p)' <= duration[p] \div scenes[p]
            /\ \/ LastCall(p)' = duration[p] \div scenes[p]
               \/ (LastCall(p)' >= SceneFloor /\ LastCall(p)' < JitterBound)]_vars

\* C39 witness: a run of two scenes with D = 8 s has rendered both, each cut
\* to its share of 4 s, and the durations add up to D exactly
C39_Witness ==
  \E p \in Pipes :
    /\ pc[p] = "render"
    /\ scenes[p] = 2
    /\ duration[p] = 8000
    /\ renderCall[p] = <<4000, 4000>>
    /\ SumCalls(renderCall[p]) = duration[p]

====
